---- MODULE Spec2Model ----
(***************************************************************************)
(* The CHIP-8 instruction core of chippy: the Chip8 structure, its         *)
(* fetch-decode-execute cycle and the 35 opcode handlers of src/chip8.rs,  *)
(* driven by the emulator loop's keypad refresh (src/emulator.rs).         *)
(***************************************************************************)
EXTENDS Integers, Naturals, Sequences, FiniteSets, TLC

\* ------------------------------------------------------------------------
\* Program constants
\* ------------------------------------------------------------------------
CHIP8_WIDTH == 64
CHIP8_HEIGHT == 32
STACK_SIZE == 16
ROM_OFFSET == 512
SPRITE_SIZE == 5
MEM_SIZE == 4096
NUM_REGS == 16
NUM_KEYS == 16
RESERVED_MEMORY_SIZE == 512
ROM_SIZE == 3584

\* ------------------------------------------------------------------------
\* Bounds of the exploration
\* ------------------------------------------------------------------------
\* number of fetch-decode-execute cycles explored from construction
MaxSteps == 5

\* cycles explored from the programs that nest calls: enough to fill the
\* sixteen entries of the stack and to try one call more
MaxStackSteps == 18

\* direct accesses to a Memory object explored in one run
MaxMemOps == 2

\* cycles explored from the programs that move data and draw
MaxDataSteps == 8

\* cycles explored from the programs that skip, wait, load timers and glyphs
MaxCtlSteps == 7

\* cycles explored from the programs that load the timers and let them run
MaxToneSteps == 8

\* cycles explored from the programs run by the loop of Emulator::run
MaxDriverSteps == 5

\* cycles explored from the programs run on the Cpu of chip8/cpu.rs
MaxCpuSteps == 6

\* cycles explored from the counting loop of the repository's tests: one LD,
\* 254 passes of ADD, SE, JP, the pass that wraps V1, and one cycle more
MaxLoopSteps == 766

\* ------------------------------------------------------------------------
\* u8 / u16 arithmetic as Rust computes it
\* ------------------------------------------------------------------------
Pow2(k) == 2 ^ k

\* bit k of v  ((v >> k) & 1)
Bit(v, k) == (v \div Pow2(k)) % 2

\* `as u8` truncation of a wider unsigned value
AsU8(v) == v % 256

\* u8::wrapping_sub
WrappingSub(a, b) == (a - b + 256) % 256

RECURSIVE BitFold(_, _, _, _)
\* bitwise combination of two bytes, bit by bit from bit k down to 0;
\* f is "and", "or" or "xor"
BitFold(f, a, b, k) ==
    LET x == Bit(a, k)
        y == Bit(b, k)
        z == IF f = "and" THEN x * y
             ELSE IF f = "or" THEN (IF x + y > 0 THEN 1 ELSE 0)
             ELSE (x + y) % 2
    IN  z * Pow2(k) + (IF k = 0 THEN 0 ELSE BitFold(f, a, b, k - 1))

BitAnd(a, b) == BitFold("and", a, b, 7)
BitOr(a, b) == BitFold("or", a, b, 7)
BitXor(a, b) == BitFold("xor", a, b, 7)

\* (hi as u16) << 8 | (lo as u16)
Word(hi, lo) == BitFold("or", (hi * Pow2(8)) % Pow2(16), lo, 15)

\* ------------------------------------------------------------------------
\* Byte vectors (mem, display).  A Vec<u8> of fixed length is kept as the map
\* of its non-zero cells: a cell outside the map holds 0.  The lengths are
\* MEM_SIZE and CHIP8_WIDTH * CHIP8_HEIGHT, and every index is checked against
\* them where the code indexes.
\* ------------------------------------------------------------------------
\* vec[k]
Idx(vec, k) == IF k \in DOMAIN vec THEN vec[k] ELSE 0

\* vec[k] = v
Store(vec, k, v) ==
    IF v = 0
    THEN [j \in (DOMAIN vec) \ {k} |-> vec[j]]
    ELSE [j \in (DOMAIN vec) \cup {k} |-> IF j = k THEN v ELSE vec[j]]

\* vec![0_u8; n]
Zeroed == [j \in {} |-> 0]

\* ------------------------------------------------------------------------
\* Preloaded sprite data: a font of sixteen hexadecimal digits
\* ------------------------------------------------------------------------
FONT_DATA ==
    << 240, 144, 144, 144, 240,
        32,  96,  32,  32, 112,
       240,  16, 240, 128, 240,
       240,  16, 240,  16, 240,
       144, 144, 240,  16,  16,
       240, 128, 240,  16, 240,
       240, 128, 240, 144, 240,
       240,  16,  32,  64,  64,
       240, 144, 240, 144, 240,
       240, 144, 240,  16, 240,
       240, 144, 240, 144, 144,
       224, 144, 224, 144, 224,
       240, 128, 128, 128, 240,
       224, 144, 144, 144, 224,
       240, 128, 240, 128, 240,
       240, 128, 240, 128, 128 >>

\* ------------------------------------------------------------------------
\* ProgramCounter: the control-flow effect of one instruction
\* ------------------------------------------------------------------------
PcNext == [kind |-> "Next", addr |-> 0]
PcSkip == [kind |-> "Skip", addr |-> 0]
PcAddress(a) == [kind |-> "Address", addr |-> a]

skip_if(cond) == IF cond THEN PcSkip ELSE PcNext

\* ------------------------------------------------------------------------
\* Opcode fields
\* ------------------------------------------------------------------------
\* the opcode word <<a, x, y, n>> written as nibbles
Op(a, x, y, n) == a * 4096 + x * 256 + y * 16 + n

Nib0(opcode) == (opcode \div 4096) % 16
Nib1(opcode) == (opcode \div 256) % 16
Nib2(opcode) == (opcode \div 16) % 16
Nib3(opcode) == opcode % 16
NNN(opcode) == opcode % 4096
KK(opcode) == opcode % 256

\* ------------------------------------------------------------------------
\* State: the fields of struct Chip8, the abort of the process, and the
\* record of the last cycles
\* ------------------------------------------------------------------------
VARIABLES
    mem,        \* Vec<u8> of 4096 bytes (non-zero cells)
    stack,      \* [usize; 16]
    v_reg,      \* [u8; 16], V0..VF
    i,          \* usize address register
    delay_t,    \* u8 delay timer
    sound_t,    \* u8 sound timer
    pc,         \* usize program counter
    sp,         \* usize stack pointer
    keypad,     \* [bool; 16]
    display,    \* Vec<u8> of 64 * 32 cells (non-zero cells)
    display_len, \* display.len(), the number of cells the vector holds
    draw,       \* bool, display changed
    beep,       \* bool, tone should play
    panicked,   \* the process aborted inside fetch_decode_execute (a Rust panic)
    steps,      \* number of fetch_decode_execute calls so far
    last,       \* the opcode and the machine as it was before the last completed cycle
    last2,      \* the same for the cycle before that one
    last3,      \* and for the cycle before last2's
    open,       \* the calls not yet returned from: return address, sp at the call
    image,      \* the program image supplied to the loader (length, non-zero bytes)
    fresh,      \* nothing has happened since construction
    mm,         \* a Memory object: the reserved region and the Rom behind it
    mops,       \* number of direct accesses to mm so far
    mlast,      \* the last direct access to mm, its result, and mm before it
    drv,        \* Emulator::run: place in the loop body, renders done, the
                \* display last rendered, whether the audio device plays
    tone        \* for each timer, its value after the last cycle that loaded it
                \* and the number of cycles completed since

vars == << mem, stack, v_reg, i, delay_t, sound_t, pc, sp, keypad, display,
           display_len, draw, beep, panicked, steps, last, last2, last3, open,
           image, fresh, mm, mops, mlast, drv, tone >>

\* the Chip8 structure as one value
Self ==
    [ mem |-> mem, stack |-> stack, v_reg |-> v_reg, i |-> i,
      delay_t |-> delay_t, sound_t |-> sound_t, pc |-> pc, sp |-> sp,
      keypad |-> keypad, display |-> display, display_len |-> display_len,
      draw |-> draw, beep |-> beep ]

\* result of a handler: the machine, the control-flow effect, and whether the
\* handler panicked (index out of bounds, arithmetic overflow)
Ret(c, npc) == [c |-> c, npc |-> npc, panic |-> FALSE]
Abort(c) == [c |-> c, npc |-> PcNext, panic |-> TRUE]

\* ------------------------------------------------------------------------
\* Opcode handlers (impl Chip8)
\* ------------------------------------------------------------------------
\* 00E0 - CLS
execute_CLS(c) ==
    Ret([c EXCEPT !.display = Zeroed, !.draw = TRUE], PcNext)

\* RET with a stack pointer that wraps around the stack instead of underflowing
execute_RET_Wrapping(c) ==
    LET nsp == (c.sp + STACK_SIZE - 1) % STACK_SIZE
    IN  Ret([c EXCEPT !.sp = nsp], PcAddress(c.stack[nsp]))

\* 00EE - RET
execute_RET(c) ==
    IF c.sp = 0 \/ c.sp - 1 >= STACK_SIZE
    THEN Abort(c)
    ELSE Ret([c EXCEPT !.sp = c.sp - 1], PcAddress(c.stack[c.sp - 1]))

\* 1nnn - JP addr
execute_JP_addr(c, nnn) == Ret(c, PcAddress(nnn))

\* CALL that pushes without the bounds check of the indexing
execute_CALL_addr_Unchecked(c, nnn) ==
    Ret([c EXCEPT !.stack = [s \in DOMAIN c.stack |->
                                IF s = c.sp THEN c.pc + 2 ELSE c.stack[s]],
                  !.sp = c.sp + 1],
        PcAddress(nnn))

\* CALL that pushes the address of the call itself
execute_CALL_addr_PushPc(c, nnn) ==
    IF c.sp >= STACK_SIZE
    THEN Abort(c)
    ELSE Ret([c EXCEPT !.stack[c.sp] = c.pc, !.sp = c.sp + 1],
             PcAddress(nnn))

\* 2nnn - CALL addr
execute_CALL_addr(c, nnn) ==
    IF c.sp >= STACK_SIZE
    THEN Abort(c)
    ELSE Ret([c EXCEPT !.stack[c.sp] = c.pc + 2, !.sp = c.sp + 1],
             PcAddress(nnn))

\* SE Vx, byte that skips when the register differs from the byte
execute_SE_Vx_kk_Differs(c, vx, kk) == Ret(c, skip_if(c.v_reg[vx] # kk))

\* 3xkk - SE Vx, byte
execute_SE_Vx_kk(c, vx, kk) == Ret(c, skip_if(c.v_reg[vx] = kk))

\* 4xkk - SNE Vx, byte
execute_SNE_Vx_kk(c, vx, kk) == Ret(c, skip_if(c.v_reg[vx] # kk))

\* 5xy0 - SE Vx, Vy
execute_SE_Vx_Vy(c, vx, vy) == Ret(c, skip_if(c.v_reg[vx] = c.v_reg[vy]))

\* 6xkk - LD Vx, byte
execute_LD_Vx_kk(c, vx, kk) == Ret([c EXCEPT !.v_reg[vx] = kk], PcNext)

\* ADD Vx, byte that reports the carry in VF
execute_ADD_Vx_kk_Carry(c, vx, kk) ==
    Ret([c EXCEPT !.v_reg = [[c.v_reg EXCEPT ![vx] = AsU8(c.v_reg[vx] + kk)]
                                EXCEPT ![15] = IF c.v_reg[vx] + kk > 255 THEN 1 ELSE 0]],
        PcNext)

\* 7xkk - ADD Vx, byte
execute_ADD_Vx_kk(c, vx, kk) ==
    Ret([c EXCEPT !.v_reg[vx] = AsU8(c.v_reg[vx] + kk)], PcNext)

\* 8xy0 - LD Vx, Vy
execute_LD_Vx_Vy(c, vx, vy) == Ret([c EXCEPT !.v_reg[vx] = c.v_reg[vy]], PcNext)

\* 8xy1 - OR Vx, Vy
execute_OR_Vx_Vy(c, vx, vy) ==
    Ret([c EXCEPT !.v_reg[vx] = BitOr(c.v_reg[vx], c.v_reg[vy])], PcNext)

\* 8xy2 - AND Vx, Vy
execute_AND_Vx_Vy(c, vx, vy) ==
    Ret([c EXCEPT !.v_reg[vx] = BitAnd(c.v_reg[vx], c.v_reg[vy])], PcNext)

\* 8xy3 - XOR Vx, Vy
execute_XOR_Vx_Vy(c, vx, vy) ==
    Ret([c EXCEPT !.v_reg[vx] = BitXor(c.v_reg[vx], c.v_reg[vy])], PcNext)

\* 8xy4 with VF written before Vx, as the SUB handlers do
execute_ADD_Vx_Vy_FlagFirst(c, vx, vy) ==
    LET result == c.v_reg[vx] + c.v_reg[vy]
        r1 == [c.v_reg EXCEPT ![15] = IF result > 255 THEN 1 ELSE 0]
        r2 == [r1 EXCEPT ![vx] = AsU8(result)]
    IN  Ret([c EXCEPT !.v_reg = r2], PcNext)

\* 8xy4 - ADD Vx, Vy: Vx is written first, then VF = carry
execute_ADD_Vx_Vy(c, vx, vy) ==
    LET x == c.v_reg[vx]
        y == c.v_reg[vy]
        result == x + y
        r1 == [c.v_reg EXCEPT ![vx] = AsU8(result)]
        r2 == [r1 EXCEPT ![15] = IF result > 255 THEN 1 ELSE 0]
    IN  Ret([c EXCEPT !.v_reg = r2], PcNext)

\* 8xy5 - SUB Vx, Vy: VF is written first, then both operands are read again
execute_SUB_Vx_Vy(c, vx, vy) ==
    LET r1 == [c.v_reg EXCEPT ![15] = IF c.v_reg[vx] > c.v_reg[vy] THEN 1 ELSE 0]
        r2 == [r1 EXCEPT ![vx] = WrappingSub(r1[vx], r1[vy])]
    IN  Ret([c EXCEPT !.v_reg = r2], PcNext)

\* 8xy6 - SHR Vx {, Vy}
execute_SHR_Vx(c, vx) ==
    LET r1 == [c.v_reg EXCEPT ![15] = c.v_reg[vx] % 2]
        r2 == [r1 EXCEPT ![vx] = r1[vx] \div 2]
    IN  Ret([c EXCEPT !.v_reg = r2], PcNext)

\* 8xy7 - SUBN Vx, Vy: VF is written first, then both operands are read again
execute_SUBN_Vx_Vy(c, vx, vy) ==
    LET r1 == [c.v_reg EXCEPT ![15] = IF c.v_reg[vy] > c.v_reg[vx] THEN 1 ELSE 0]
        r2 == [r1 EXCEPT ![vx] = WrappingSub(r1[vy], r1[vx])]
    IN  Ret([c EXCEPT !.v_reg = r2], PcNext)

\* 8xyE - SHL Vx {, Vy}
execute_SHL_Vx(c, vx) ==
    LET r1 == [c.v_reg EXCEPT ![15] = BitAnd(c.v_reg[vx], 128) \div 128]
        r2 == [r1 EXCEPT ![vx] = AsU8(r1[vx] * 2)]
    IN  Ret([c EXCEPT !.v_reg = r2], PcNext)

\* 9xy0 - SNE Vx, Vy
execute_SNE_Vx_Vy(c, vx, vy) == Ret(c, skip_if(c.v_reg[vx] # c.v_reg[vy]))

\* Annn - LD I, addr
execute_LD_I_addr(c, nnn) == Ret([c EXCEPT !.i = nnn], PcNext)

\* JP V0, addr with the target cut to the twelve bits of an address
execute_JP_V0_addr_Masked(c, nnn) == Ret(c, PcAddress((nnn + c.v_reg[0]) % MEM_SIZE))

\* Bnnn - JP V0, addr
execute_JP_V0_addr(c, nnn) == Ret(c, PcAddress(nnn + c.v_reg[0]))

\* RND Vx, byte that draws from the lower half of the bytes only
execute_RND_Vx_kk_Low(c, vx, kk, rnd) ==
    Ret([c EXCEPT !.v_reg[vx] = BitAnd(kk, rnd % 128)], PcNext)

\* Cxkk - RND Vx, byte; rnd is the byte rand::random::<u8>() returns
execute_RND_Vx_kk(c, vx, kk, rnd) ==
    Ret([c EXCEPT !.v_reg[vx] = BitAnd(kk, rnd)], PcNext)

\* one iteration of the Dxyn loops where any sprite bit that is written sets VF
DrawPixel_FlagOnWrite(c, vx, vy, row, col) ==
    LET dx == (col + c.v_reg[vx]) % CHIP8_WIDTH
        dy == (row + c.v_reg[vy]) % CHIP8_HEIGHT
        color == Bit(Idx(c.mem, c.i + row), 7 - col)
        cell == dy * CHIP8_WIDTH + dx
    IN  [c EXCEPT !.v_reg[15] = BitOr(c.v_reg[15], color),
                  !.display = Store(c.display, cell, BitXor(Idx(c.display, cell), color))]

\* one iteration of the Dxyn loops where the sprite bit is ORed into the display
DrawPixel_Or(c, vx, vy, row, col) ==
    LET dx == (col + c.v_reg[vx]) % CHIP8_WIDTH
        dy == (row + c.v_reg[vy]) % CHIP8_HEIGHT
        color == Bit(Idx(c.mem, c.i + row), 7 - col)
        cell == dy * CHIP8_WIDTH + dx
    IN  [c EXCEPT !.v_reg[15] = BitOr(c.v_reg[15], BitAnd(color, Idx(c.display, cell))),
                  !.display = Store(c.display, cell, BitOr(Idx(c.display, cell), color))]

\* one iteration of the Dxyn loops: sprite bit (row, col) is combined into the
\* display; Vx, Vy and I are read from the machine as it is at this iteration
DrawPixel(c, vx, vy, row, col) ==
    LET dx == (col + c.v_reg[vx]) % CHIP8_WIDTH
        dy == (row + c.v_reg[vy]) % CHIP8_HEIGHT
        color == Bit(Idx(c.mem, c.i + row), 7 - col)
        cell == dy * CHIP8_WIDTH + dx
    IN  [c EXCEPT !.v_reg[15] = BitOr(c.v_reg[15], BitAnd(color, Idx(c.display, cell))),
                  !.display = Store(c.display, cell, BitXor(Idx(c.display, cell), color))]

\* dy * CHIP8_WIDTH + dx, the index into self.display of one iteration
DrawCell(c, vx, vy, row, col) ==
    ((row + c.v_reg[vy]) % CHIP8_HEIGHT) * CHIP8_WIDTH
        + ((col + c.v_reg[vx]) % CHIP8_WIDTH)

RECURSIVE DrawLoop(_, _, _, _, _)
\* for row in 0..n { for col in 0..8 { ... } }, k = row * 8 + col
DrawLoop(c, vx, vy, n, k) ==
    IF k >= n * 8
    THEN Ret([c EXCEPT !.draw = TRUE], PcNext)
    ELSE IF c.i + (k \div 8) >= MEM_SIZE
            \/ DrawCell(c, vx, vy, k \div 8, k % 8) >= c.display_len
         THEN Abort(c)
         ELSE DrawLoop(DrawPixel(c, vx, vy, k \div 8, k % 8), vx, vy, n, k + 1)

\* Dxyn that marks the display dirty only when a pixel changed
execute_DRW_Vx_Vy_n_DirtyOnChange(c, vx, vy, n) ==
    LET r == DrawLoop([c EXCEPT !.v_reg[15] = 0], vx, vy, n, 0)
    IN  [r EXCEPT !.c.draw = c.draw \/ (r.c.display # c.display)]

\* Dxyn - DRW Vx, Vy, nibble
execute_DRW_Vx_Vy_n(c, vx, vy, n) ==
    DrawLoop([c EXCEPT !.v_reg[15] = 0], vx, vy, n, 0)

\* Ex9E - SKP Vx
execute_SKP_Vx(c, vx) ==
    IF c.v_reg[vx] >= NUM_KEYS
    THEN Abort(c)
    ELSE Ret(c, skip_if(c.keypad[c.v_reg[vx]]))

\* SKNP Vx that skips when the key is pressed
execute_SKNP_Vx_Pressed(c, vx) ==
    IF c.v_reg[vx] >= NUM_KEYS
    THEN Abort(c)
    ELSE Ret(c, skip_if(c.keypad[c.v_reg[vx]]))

\* ExA1 - SKNP Vx
execute_SKNP_Vx(c, vx) ==
    IF c.v_reg[vx] >= NUM_KEYS
    THEN Abort(c)
    ELSE Ret(c, skip_if(~c.keypad[c.v_reg[vx]]))

\* LD Vx, DT that reads the delay timer as the tick of its cycle leaves it
execute_LD_Vx_DT_AfterTick(c, vx) ==
    Ret([c EXCEPT !.v_reg[vx] = IF c.delay_t > 0 THEN c.delay_t - 1 ELSE 0], PcNext)

\* Fx07 - LD Vx, DT
execute_LD_Vx_DT(c, vx) == Ret([c EXCEPT !.v_reg[vx] = c.delay_t], PcNext)

\* the last pressed key instead of the first (rposition)
is_key_pressed_Last(c) ==
    LET pressed == {k \in DOMAIN c.keypad : c.keypad[k]}
    IN  IF pressed = {}
        THEN [some |-> FALSE, val |-> 0]
        ELSE [some |-> TRUE, val |-> CHOOSE k \in pressed : \A j \in pressed : k >= j]

\* keypad.iter().position(|&k| k): the first pressed key, if any
is_key_pressed(c) ==
    LET pressed == {k \in DOMAIN c.keypad : c.keypad[k]}
    IN  IF pressed = {}
        THEN [some |-> FALSE, val |-> 0]
        ELSE [some |-> TRUE, val |-> CHOOSE k \in pressed : \A j \in pressed : k <= j]

\* Fx0A - LD Vx, K
execute_LD_Vx_K(c, vx) ==
    LET key == is_key_pressed(c)
    IN  IF key.some
        THEN Ret([c EXCEPT !.v_reg[vx] = AsU8(key.val)], PcNext)
        ELSE Ret(c, PcAddress(c.pc))

\* Fx15 - LD DT, Vx
execute_LD_DT_Vx(c, vx) == Ret([c EXCEPT !.delay_t = c.v_reg[vx]], PcNext)

\* Fx18 - LD ST, Vx
execute_LD_ST_Vx(c, vx) == Ret([c EXCEPT !.sound_t = c.v_reg[vx]], PcNext)

\* Fx1E - ADD I, Vx
execute_ADD_I_Vx(c, vx) ==
    LET v == c.i + c.v_reg[vx]
    IN  Ret([c EXCEPT !.v_reg[15] = IF v > 3840 THEN 1 ELSE 0, !.i = v], PcNext)

\* LD F, Vx that takes the glyph of the low nibble of Vx
execute_LD_F_Vx_Masked(c, vx) ==
    Ret([c EXCEPT !.i = (c.v_reg[vx] % NUM_KEYS) * SPRITE_SIZE], PcNext)

\* Fx29 - LD F, Vx
execute_LD_F_Vx(c, vx) == Ret([c EXCEPT !.i = c.v_reg[vx] * SPRITE_SIZE], PcNext)

\* LD B, Vx whose middle digit is the quotient by ten, hundreds not removed
execute_LD_B_Vx_TensOfAll(c, vx) ==
    LET value_x == c.v_reg[vx]
    IN  IF c.i + 2 >= MEM_SIZE
        THEN Abort(c)
        ELSE Ret([c EXCEPT !.mem =
                    Store(Store(Store(c.mem, c.i, value_x \div 100),
                                c.i + 1, value_x \div 10),
                          c.i + 2, value_x % 10)], PcNext)

\* Fx33 - LD B, Vx
execute_LD_B_Vx(c, vx) ==
    LET value_x == c.v_reg[vx]
    IN  IF c.i + 2 >= MEM_SIZE
        THEN Abort(c)
        ELSE Ret([c EXCEPT !.mem =
                    Store(Store(Store(c.mem, c.i, value_x \div 100),
                                c.i + 1, (value_x % 100) \div 10),
                          c.i + 2, value_x % 10)], PcNext)

RECURSIVE StoreRegs(_, _, _, _)
\* (k..=vx).for_each(|i| mem[base + i] = v_reg[i])
StoreRegs(vec, base, regs, k) ==
    IF k < 0 THEN vec
    ELSE Store(StoreRegs(vec, base, regs, k - 1), base + k, regs[k])

\* Fx55 - LD [I], Vx
execute_LD_I_Vx(c, vx) ==
    IF c.i + vx >= MEM_SIZE
    THEN Abort(c)
    ELSE Ret([c EXCEPT !.mem = StoreRegs(c.mem, c.i, c.v_reg, vx)], PcNext)

\* LD Vx, [I] that stops one register short of Vx
execute_LD_Vx_I_Exclusive(c, vx) ==
    IF c.i + vx >= MEM_SIZE
    THEN Abort(c)
    ELSE Ret([c EXCEPT !.v_reg = [r \in DOMAIN c.v_reg |->
                  IF r < vx THEN Idx(c.mem, c.i + r) ELSE c.v_reg[r]]],
             PcNext)

\* Fx65 - LD Vx, [I]
execute_LD_Vx_I(c, vx) ==
    IF c.i + vx >= MEM_SIZE
    THEN Abort(c)
    ELSE Ret([c EXCEPT !.v_reg = [r \in DOMAIN c.v_reg |->
                  IF r <= vx THEN Idx(c.mem, c.i + r) ELSE c.v_reg[r]]],
             PcNext)

\* ------------------------------------------------------------------------
\* Fetch, decode and execute
\* ------------------------------------------------------------------------
\* big-endian word at pc
fetch_opcode(c) == Word(Idx(c.mem, c.pc), Idx(c.mem, c.pc + 1))

\* the arm (0x5, _, _, 0x0) taken for any even last nibble
Matches_SE_Vx_Vy_Even(p0, n) == p0 = 5 /\ n % 2 = 0

\* the arm (0x5, _, _, 0x0)
Matches_SE_Vx_Vy(p0, n) == p0 = 5 /\ n = 0

\* the match over the four nibbles; the first arm that matches is taken
Dispatch(c, opcode, rnd) ==
    LET p0 == Nib0(opcode)
        vx == Nib1(opcode)
        vy == Nib2(opcode)
        n  == Nib3(opcode)
        nnn == NNN(opcode)
        kk == KK(opcode)
    IN  CASE p0 = 0 /\ vx = 0 /\ vy = 14 /\ n = 0  -> execute_CLS(c)
          [] p0 = 0 /\ vx = 0 /\ vy = 14 /\ n = 14 -> execute_RET(c)
          [] p0 = 1            -> execute_JP_addr(c, nnn)
          [] p0 = 2            -> execute_CALL_addr(c, nnn)
          [] p0 = 3            -> execute_SE_Vx_kk(c, vx, kk)
          [] p0 = 4            -> execute_SNE_Vx_kk(c, vx, kk)
          [] Matches_SE_Vx_Vy(p0, n) -> execute_SE_Vx_Vy(c, vx, vy)
          [] p0 = 6            -> execute_LD_Vx_kk(c, vx, kk)
          [] p0 = 7            -> execute_ADD_Vx_kk(c, vx, kk)
          [] p0 = 8 /\ n = 0   -> execute_LD_Vx_Vy(c, vx, vy)
          [] p0 = 8 /\ n = 1   -> execute_OR_Vx_Vy(c, vx, vy)
          [] p0 = 8 /\ n = 2   -> execute_AND_Vx_Vy(c, vx, vy)
          [] p0 = 8 /\ n = 3   -> execute_XOR_Vx_Vy(c, vx, vy)
          [] p0 = 8 /\ n = 4   -> execute_ADD_Vx_Vy(c, vx, vy)
          [] p0 = 8 /\ n = 5   -> execute_SUB_Vx_Vy(c, vx, vy)
          [] p0 = 8 /\ n = 6   -> execute_SHR_Vx(c, vx)
          [] p0 = 8 /\ n = 7   -> execute_SUBN_Vx_Vy(c, vx, vy)
          [] p0 = 8 /\ n = 14  -> execute_SHL_Vx(c, vx)
          [] p0 = 9 /\ n = 0   -> execute_SNE_Vx_Vy(c, vx, vy)
          [] p0 = 10           -> execute_LD_I_addr(c, nnn)
          [] p0 = 11           -> execute_JP_V0_addr(c, nnn)
          [] p0 = 12           -> execute_RND_Vx_kk(c, vx, kk, rnd)
          [] p0 = 13           -> execute_DRW_Vx_Vy_n(c, vx, vy, n)
          [] p0 = 14 /\ vy = 9 /\ n = 14  -> execute_SKP_Vx(c, vx)
          [] p0 = 14 /\ vy = 10 /\ n = 1  -> execute_SKNP_Vx(c, vx)
          [] p0 = 15 /\ vy = 0 /\ n = 7   -> execute_LD_Vx_DT(c, vx)
          [] p0 = 15 /\ vy = 0 /\ n = 10  -> execute_LD_Vx_K(c, vx)
          [] p0 = 15 /\ vy = 1 /\ n = 5   -> execute_LD_DT_Vx(c, vx)
          [] p0 = 15 /\ vy = 1 /\ n = 8   -> execute_LD_ST_Vx(c, vx)
          [] p0 = 15 /\ vy = 1 /\ n = 14  -> execute_ADD_I_Vx(c, vx)
          [] p0 = 15 /\ vy = 2 /\ n = 9   -> execute_LD_F_Vx(c, vx)
          [] p0 = 15 /\ vy = 3 /\ n = 3   -> execute_LD_B_Vx(c, vx)
          [] p0 = 15 /\ vy = 5 /\ n = 5   -> execute_LD_I_Vx(c, vx)
          [] p0 = 15 /\ vy = 6 /\ n = 5   -> execute_LD_Vx_I(c, vx)
          [] OTHER             -> Ret(c, PcNext)

\* the match over ProgramCounter with Next counted in words, not bytes
ResolvePc_NextByOne(r) ==
    [ c |-> r.c,
      new_pc |-> CASE r.npc.kind = "Next" -> r.c.pc + 1
                   [] r.npc.kind = "Skip" -> r.c.pc + 4
                   [] OTHER -> r.npc.addr,
      panic |-> r.panic ]

\* the match over ProgramCounter that ends execute_instruction: r is what the
\* handler returned, the new pc is taken from self.pc as the handler left it
ResolvePc(r) ==
    [ c |-> r.c,
      new_pc |-> CASE r.npc.kind = "Next" -> r.c.pc + 2
                   [] r.npc.kind = "Skip" -> r.c.pc + 4
                   [] OTHER -> r.npc.addr,
      panic |-> r.panic ]

execute_instruction(c, opcode, rnd) == ResolvePc(Dispatch(c, opcode, rnd))

\* a tick that decrements without the test for 0 (u8 wrapping)
TimerTick_NoFloor(c) ==
    LET d == (c.delay_t + 255) % 256
        s == (c.sound_t + 255) % 256
    IN  [c EXCEPT !.delay_t = d, !.sound_t = s, !.beep = (s > 0)]

\* a tick that derives beep from the sound timer before decrementing it
TimerTick_BeepBefore(c) ==
    LET d == IF c.delay_t > 0 THEN c.delay_t - 1 ELSE c.delay_t
        s == IF c.sound_t > 0 THEN c.sound_t - 1 ELSE c.sound_t
    IN  [c EXCEPT !.delay_t = d, !.sound_t = s, !.beep = (c.sound_t > 0)]

\* a tick that never takes the sound timer from 1 to 0
TimerTick_StuckAtOne(c) ==
    LET d == IF c.delay_t > 0 THEN c.delay_t - 1 ELSE c.delay_t
        s == IF c.sound_t > 1 THEN c.sound_t - 1 ELSE c.sound_t
    IN  [c EXCEPT !.delay_t = d, !.sound_t = s, !.beep = (s > 0)]

\* the two timers count down to 0 and beep follows the sound timer
TimerTick(c) ==
    LET d == IF c.delay_t > 0 THEN c.delay_t - 1 ELSE c.delay_t
        s == IF c.sound_t > 0 THEN c.sound_t - 1 ELSE c.sound_t
    IN  [c EXCEPT !.delay_t = d, !.sound_t = s, !.beep = (s > 0)]

\* a cycle that leaves the timers alone when the handler returned its own
\* address
Commit_FreezeWhenWaiting(c, opcode, e) ==
    IF e.panic
    THEN [c |-> c, opcode |-> opcode, panic |-> TRUE]
    ELSE [c |-> IF e.new_pc = c.pc
                THEN [e.c EXCEPT !.pc = e.new_pc]
                ELSE TimerTick([e.c EXCEPT !.pc = e.new_pc]),
          opcode |-> opcode, panic |-> FALSE]

\* self.pc = <new pc>, then the timer tick; e is what execute_instruction
\* returned for the opcode fetched from machine c
Commit(c, opcode, e) ==
    IF e.panic
    THEN [c |-> c, opcode |-> opcode, panic |-> TRUE]
    ELSE [c |-> TimerTick([e.c EXCEPT !.pc = e.new_pc]),
          opcode |-> opcode, panic |-> FALSE]

\* one cycle; panic is TRUE when the fetch or the handler aborts the process
fetch_decode_execute(c, rnd) ==
    IF c.pc + 1 >= MEM_SIZE
    THEN [c |-> c, opcode |-> 0, panic |-> TRUE]
    ELSE Commit(c, fetch_opcode(c), execute_instruction(c, fetch_opcode(c), rnd))

\* ------------------------------------------------------------------------
\* The Cpu of chip8/cpu.rs and chip8/opcodes.rs: the same fields, fetch, match
\* and handlers, except for 00E0
\* ------------------------------------------------------------------------
\* 00E0 - CLS: mem::take(&mut self.display) moves the vector out and leaves
\* Vec::default(), the empty vector
Cpu_execute_CLS(c) ==
    Ret([c EXCEPT !.display = Zeroed, !.display_len = 0, !.draw = TRUE], PcNext)

Cpu_execute_instruction(c, opcode, rnd) ==
    ResolvePc(IF opcode = Op(0,0,14,0) THEN Cpu_execute_CLS(c)
              ELSE Dispatch(c, opcode, rnd))

Cpu_fetch_decode_execute(c, rnd) ==
    IF c.pc + 1 >= MEM_SIZE
    THEN [c |-> c, opcode |-> 0, panic |-> TRUE]
    ELSE Commit(c, fetch_opcode(c), Cpu_execute_instruction(c, fetch_opcode(c), rnd))

\* ------------------------------------------------------------------------
\* Construction
\* ------------------------------------------------------------------------
\* a byte sequence as an image: its length and its non-zero bytes by offset
Image(bytes) ==
    [ len |-> Len(bytes),
      bytes |-> [k \in {j \in 0..(Len(bytes) - 1) : bytes[j + 1] # 0} |-> bytes[k + 1]] ]

\* the loader: a zeroed buffer of ROM_SIZE bytes filled by one read of the
\* file, which stores at most ROM_SIZE bytes and drops the rest of the file
ReadFile(file) ==
    [ len |-> ROM_SIZE,
      bytes |-> [k \in {j \in DOMAIN file.bytes : j < ROM_SIZE} |-> file.bytes[k]] ]

\* Chip8::new with the rom copied one byte further than ROM_OFFSET
New_RomShifted(rom) ==
    [ mem |-> [a \in {f \in 0..(Len(FONT_DATA) - 1) : FONT_DATA[f + 1] # 0}
                      \cup {ROM_OFFSET + 1 + k : k \in DOMAIN rom.bytes}
                 |-> IF a < ROM_OFFSET THEN FONT_DATA[a + 1]
                     ELSE rom.bytes[a - ROM_OFFSET - 1]],
      stack |-> [s \in 0..(STACK_SIZE - 1) |-> 0],
      v_reg |-> [r \in 0..(NUM_REGS - 1) |-> 0],
      i |-> 0,
      delay_t |-> 0,
      sound_t |-> 0,
      pc |-> ROM_OFFSET,
      sp |-> 0,
      keypad |-> [k \in 0..(NUM_KEYS - 1) |-> FALSE],
      display |-> Zeroed,
      display_len |-> CHIP8_WIDTH * CHIP8_HEIGHT,
      draw |-> FALSE,
      beep |-> FALSE ]

\* Chip8::new(rom): font at 0, rom at ROM_OFFSET, everything else Default
\* (rom.len <= MEM_SIZE - ROM_OFFSET for every buffer the loader passes)
New(rom) ==
    [ mem |-> [a \in {f \in 0..(Len(FONT_DATA) - 1) : FONT_DATA[f + 1] # 0}
                      \cup {ROM_OFFSET + k : k \in DOMAIN rom.bytes}
                 |-> IF a < ROM_OFFSET THEN FONT_DATA[a + 1]
                     ELSE rom.bytes[a - ROM_OFFSET]],
      stack |-> [s \in 0..(STACK_SIZE - 1) |-> 0],
      v_reg |-> [r \in 0..(NUM_REGS - 1) |-> 0],
      i |-> 0,
      delay_t |-> 0,
      sound_t |-> 0,
      pc |-> ROM_OFFSET,
      sp |-> 0,
      keypad |-> [k \in 0..(NUM_KEYS - 1) |-> FALSE],
      display |-> Zeroed,
      display_len |-> CHIP8_WIDTH * CHIP8_HEIGHT,
      draw |-> FALSE,
      beep |-> FALSE ]

\* ------------------------------------------------------------------------
\* Memory: the reserved region and the Rom composed behind one address space
\* (trait AddressSpace).  An access returns its value and whether it panicked.
\* ------------------------------------------------------------------------
\* ReservedMemory::new(): 512 bytes, the font in the first 80
ReservedMemory_new ==
    [a \in {f \in 0..79 : FONT_DATA[f + 1] # 0} |-> FONT_DATA[a + 1]]

\* Rom::new(rom): the ROM_SIZE bytes of the buffer
Rom_new(rom) == rom.bytes

\* Memory::new(rom)
Memory_new(rom) == [reserved |-> ReservedMemory_new, rom |-> rom]

\* ReservedMemory::read_byte: self.0[addr]
ReservedMemory_read_byte(rs, addr) ==
    IF addr >= RESERVED_MEMORY_SIZE
    THEN [val |-> 0, panic |-> TRUE]
    ELSE [val |-> Idx(rs, addr), panic |-> FALSE]

\* ReservedMemory::write_byte: panic!("read-only memory")
ReservedMemory_write_byte(rs, value, addr) == [m |-> rs, panic |-> TRUE]

\* Rom::read_byte: self.0[addr]
Rom_read_byte(rom, addr) ==
    IF addr >= ROM_SIZE
    THEN [val |-> 0, panic |-> TRUE]
    ELSE [val |-> Idx(rom, addr), panic |-> FALSE]

\* Rom::write_byte: self.0[addr] = value
Rom_write_byte(rom, value, addr) ==
    IF addr >= ROM_SIZE
    THEN [m |-> rom, panic |-> TRUE]
    ELSE [m |-> Store(rom, addr, value), panic |-> FALSE]

\* Memory::read_byte: dispatch on the address range
Memory_read_byte(m, addr) ==
    IF addr <= 511
    THEN ReservedMemory_read_byte(m.reserved, addr)
    ELSE Rom_read_byte(m.rom, addr - RESERVED_MEMORY_SIZE)

\* Memory::write_byte that hands the Rom the address it was given
Memory_write_byte_NoOffset(m, value, addr) ==
    IF addr <= 511
    THEN [m |-> m, panic |-> ReservedMemory_write_byte(m.reserved, value, addr).panic]
    ELSE LET w == Rom_write_byte(m.rom, value, addr)
         IN  [m |-> [m EXCEPT !.rom = w.m], panic |-> w.panic]

\* Memory::write_byte: dispatch on the address range
Memory_write_byte(m, value, addr) ==
    IF addr <= 511
    THEN [m |-> m, panic |-> ReservedMemory_write_byte(m.reserved, value, addr).panic]
    ELSE LET w == Rom_write_byte(m.rom, value, addr - RESERVED_MEMORY_SIZE)
         IN  [m |-> [m EXCEPT !.rom = w.m], panic |-> w.panic]

\* read_word with the low byte taken from the lower address
read_word_LowFirst(m, addr) ==
    LET hi == Memory_read_byte(m, addr)
        lo == IF addr + 1 >= Pow2(16) THEN [val |-> 0, panic |-> TRUE]
              ELSE Memory_read_byte(m, addr + 1)
    IN  IF hi.panic \/ lo.panic
        THEN [val |-> 0, panic |-> TRUE]
        ELSE [val |-> Word(lo.val, hi.val), panic |-> FALSE]

\* AddressSpace::read_word (on a Memory): the operands are evaluated left to
\* right, so the byte at addr is read before addr + 1 is computed
read_word(m, addr) ==
    LET hi == Memory_read_byte(m, addr)
        lo == IF addr + 1 >= Pow2(16) THEN [val |-> 0, panic |-> TRUE]
              ELSE Memory_read_byte(m, addr + 1)
    IN  IF hi.panic \/ lo.panic
        THEN [val |-> 0, panic |-> TRUE]
        ELSE [val |-> Word(hi.val, lo.val), panic |-> FALSE]

\* ------------------------------------------------------------------------
\* Inputs explored: program images, keypad states, random bytes
\* ------------------------------------------------------------------------
RECURSIVE RomBytes(_)
\* a program (sequence of opcode words) as the bytes of its image, big-endian
RomBytes(prog) ==
    IF prog = << >> THEN << >>
    ELSE << Head(prog) \div 256, Head(prog) % 256 >> \o RomBytes(Tail(prog))

\* values loaded into V0 and V1 by the first two instructions of a program
SetupPairs == { <<1, 1>>, <<255, 1>>, <<1, 255>>, <<0, 255>> }

\* instructions run alone after the setup
SingleOps ==
    { Op(8,0,1,4), Op(8,15,0,4), Op(8,0,15,4),
      Op(8,0,1,5), Op(8,0,0,5), Op(8,15,0,5), Op(8,0,15,5),
      Op(8,0,1,7), Op(8,15,0,7), Op(8,0,15,7),
      Op(15,0,0,10), Op(15,1,1,14),
      Op(0,1,2,3), Op(5,0,1,1), Op(5,0,1,2), Op(9,0,1,1), Op(8,0,1,8), Op(8,0,1,15),
      Op(14,0,0,0), Op(15,0,15,15) }

\* LD I, addr followed by ADD I, Vx
LoadIOps == { Op(10,15,0,0), Op(10,15,15,15), Op(10,14,15,15) }
AddIOps == { Op(15,1,1,14), Op(15,0,1,14), Op(15,15,1,14) }

\* sprite draws: glyph at (V0, V1), no rows, and VF as a coordinate
DrawOps == { Op(13,0,1,5), Op(13,0,1,0), Op(13,15,1,5), Op(13,0,15,5) }

\* timer loads and the instructions run after them
TimerOps == { Op(15,0,1,5), Op(15,0,1,8), Op(15,1,1,5) }
AfterTimerOps == { Op(15,0,0,7), Op(15,0,0,10), Op(0,1,2,3), Op(15,1,1,8), Op(13,0,1,5) }

\* jumps, calls and returns, to even and to odd addresses
JumpTails ==
    { << Op(1,2,0,7) >>, << Op(1,2,0,8) >>, << Op(11,2,0,4) >>,
      << Op(2,2,0,7), Op(6,2,0,0), Op(14,14,0,0) >>,
      << Op(2,2,0,8), Op(0,0,0,0), Op(0,0,14,14) >> }

\* LD I, addr followed by a store to memory at I: into the font, across the
\* end of the reserved region, and into the program region
StoreTails ==
    { << a, b >> : a \in { Op(10,0,0,0), Op(10,1,15,15), Op(10,3,0,0) },
                   b \in { Op(15,1,5,5), Op(15,0,3,3) } }

Tails ==
    { << op >> : op \in SingleOps }
    \cup JumpTails
    \cup StoreTails
    \cup { << a, b >> : a \in LoadIOps, b \in AddIOps }
    \cup { << a, b >> : a \in DrawOps, b \in DrawOps }
    \cup { << a, b >> : a \in TimerOps, b \in AfterTimerOps }
    \cup { << Op(13,1,0,5), a, a >> : a \in DrawOps }
    \cup { << a, a, a >> : a \in DrawOps }
    \cup { << Op(10,15,15,14), Op(13,0,1,5) >> }

Programs ==
    { << Op(6,0,0,0) + ab[1], Op(6,1,0,0) + ab[2] >> \o tail :
        ab \in SetupPairs, tail \in Tails }

\* a file of len bytes: LD V0, 1 and a jump back to it at the start, zeros,
\* and 0x7F as its last byte
LongFile(len) ==
    [ len |-> len,
      bytes |-> [k \in {0, 1, 2, len - 1} |->
                    CASE k = 0 -> 96 [] k = 1 -> 1 [] k = 2 -> 18 [] OTHER -> 127] ]

\* files by length: empty, filling the program region exactly, and longer
\* than the program region by one byte and by many
SizedFiles ==
    { Image(<< >>), LongFile(ROM_SIZE), LongFile(ROM_SIZE + 1), LongFile(2 * ROM_SIZE) }

\* program files given to the loader
Files == { Image(RomBytes(prog)) : prog \in Programs } \cup SizedFiles

\* keypad states the driver may report
KeySets == { {}, {2, 5} }

\* bytes rand::random::<u8>() may return
RandBytes == 0..255

\* ------------------------------------------------------------------------
\* Specification
\* ------------------------------------------------------------------------
NoCycle == [ran |-> FALSE]

\* the open calls after a completed cycle of machine c that executed opcode:
\* 2nnn opens one, 00EE closes the innermost
NextOpen(opn, opcode, c) ==
    IF Nib0(opcode) = 2
    THEN Append(opn, [ret |-> c.pc + 2, sp |-> c.sp])
    ELSE IF opcode = Op(0,0,14,14) /\ Len(opn) > 0
         THEN SubSeq(opn, 1, Len(opn) - 1)
         ELSE opn
NoAccess == [op |-> "none"]

\* the loop of Emulator::run is not followed: cycles and key updates only
DriverOff == [loc |-> "off", renders |-> 0, playing |-> FALSE]

\* neither timer has been loaded: both are 0 since construction
NoTone == [sound |-> [k |-> 0, n |-> 0], delay |-> [k |-> 0, n |-> 0]]

\* the timers' records after a completed cycle that executed opcode and left
\* machine c: Fx18 (Fx15) starts the sound (delay) record again at the value
\* the timer has after that cycle, any other opcode counts one more cycle
NextTone(t, opcode, c) ==
    [ sound |-> IF Nib0(opcode) = 15 /\ KK(opcode) = 24
                THEN [k |-> c.sound_t, n |-> 0]
                ELSE [t.sound EXCEPT !.n = t.sound.n + 1],
      delay |-> IF Nib0(opcode) = 15 /\ KK(opcode) = 21
                THEN [k |-> c.delay_t, n |-> 0]
                ELSE [t.delay EXCEPT !.n = t.delay.n + 1] ]

Init ==
    \E file \in Files :
        LET c == New(ReadFile(file))
        IN  /\ image = file
            /\ fresh = TRUE
            /\ mm = Memory_new(Rom_new(ReadFile(file)))
            /\ mops = 0
            /\ mlast = NoAccess
            /\ mem = c.mem
            /\ stack = c.stack
            /\ v_reg = c.v_reg
            /\ i = c.i
            /\ delay_t = c.delay_t
            /\ sound_t = c.sound_t
            /\ pc = c.pc
            /\ sp = c.sp
            /\ keypad = c.keypad
            /\ display = c.display
            /\ draw = c.draw
            /\ beep = c.beep
            /\ panicked = FALSE
            /\ steps = 0
            /\ last = NoCycle
            /\ last2 = NoCycle
            /\ last3 = NoCycle
            /\ open = << >>
            /\ display_len = c.display_len
            /\ drv = DriverOff
            /\ tone = NoTone

\* one call of fetch_decode_execute() on the machine, for runs of at most
\* bound cycles; cpu selects the Cpu of chip8/cpu.rs instead of the Chip8 of
\* chip8.rs
CycleOf(bound, cpu) ==
    /\ ~panicked
    /\ steps < bound
    /\ \E rnd \in (IF pc + 1 < MEM_SIZE /\ Nib0(fetch_opcode(Self)) = 12
                   THEN RandBytes ELSE {0}) :
        \E r \in {IF cpu THEN Cpu_fetch_decode_execute(Self, rnd)
                          ELSE fetch_decode_execute(Self, rnd)} :
            /\ steps' = steps + 1
            /\ fresh' = FALSE
            /\ UNCHANGED << image, mm, mops, mlast >>
            /\ IF r.panic
               THEN /\ panicked' = TRUE
                    /\ UNCHANGED << mem, stack, v_reg, i, delay_t, sound_t, pc, sp,
                                    keypad, display, display_len, draw, beep,
                                    last, last2, last3, open, tone >>
               ELSE /\ mem' = r.c.mem
                    /\ stack' = r.c.stack
                    /\ v_reg' = r.c.v_reg
                    /\ i' = r.c.i
                    /\ delay_t' = r.c.delay_t
                    /\ sound_t' = r.c.sound_t
                    /\ pc' = r.c.pc
                    /\ sp' = r.c.sp
                    /\ keypad' = r.c.keypad
                    /\ display' = r.c.display
                    /\ display_len' = r.c.display_len
                    /\ draw' = r.c.draw
                    /\ beep' = r.c.beep
                    /\ last' = [ran |-> TRUE, opcode |-> r.opcode, c |-> Self]
                    /\ last2' = last
                    /\ last3' = last2
                    /\ open' = NextOpen(open, r.opcode, Self)
                    /\ tone' = NextTone(tone, r.opcode, r.c)
                    /\ UNCHANGED panicked

\* one iteration's call of chip8.fetch_decode_execute(), for runs of at most
\* bound cycles, the rest of the loop body left out
Cycle(bound) == CycleOf(bound, FALSE) /\ UNCHANGED drv

\* the driver loop calls chip8.fetch_decode_execute()
RunCycle == Cycle(MaxSteps)

\* the keypad refreshed from the keyboard state, for runs of at most bound cycles
UpdateKeys(bound) ==
    /\ ~panicked
    /\ steps < bound
    /\ \E ks \in KeySets :
        /\ keypad' = [k \in 0..(NUM_KEYS - 1) |-> k \in ks]
        /\ keypad' # keypad
    /\ fresh' = FALSE
    /\ UNCHANGED << mem, stack, v_reg, i, delay_t, sound_t, pc, sp, display,
                    display_len, draw, beep, panicked, steps, last, last2, last3,
                    open, image, mm, mops, mlast, drv, tone >>

\* the driver loop refreshes the keypad from the keyboard state
update_pressed_keys == UpdateKeys(MaxSteps)

Next == RunCycle \/ update_pressed_keys

Spec == Init /\ [][Next]_vars

\* ------------------------------------------------------------------------
\* Specification of the runs that nest subroutine calls
\* ------------------------------------------------------------------------
\* programs of calls and returns: a call of itself, a return at once, a
\* call and its return followed by a second return, two routines calling each
\* other, a call and return in a loop, a chain of calls
StackPrograms ==
    { << Op(2,2,0,0) >>,
      << Op(0,0,14,14) >>,
      << Op(2,2,0,4), Op(0,0,0,0), Op(0,0,14,14) >>,
      << Op(2,2,0,2), Op(2,2,0,0) >>,
      << Op(2,2,0,4), Op(1,2,0,0), Op(0,0,14,14) >>,
      << Op(2,2,0,2), Op(2,2,0,4), Op(2,2,0,6), Op(0,0,14,14) >>,
      \* three routines nested, each returning to its caller
      << Op(2,2,0,4), Op(1,2,0,2), Op(2,2,0,8), Op(0,0,14,14),
         Op(2,2,0,12), Op(0,0,14,14), Op(0,0,14,14) >>,
      \* a routine that calls a second routine twice before it returns
      << Op(2,2,0,4), Op(1,2,0,2), Op(2,2,0,10), Op(2,2,0,10),
         Op(0,0,14,14), Op(0,0,14,14) >> }

StackFiles == { Image(RomBytes(prog)) : prog \in StackPrograms }

StackInit ==
    \E file \in StackFiles :
        LET c == New(ReadFile(file))
        IN  /\ image = file
            /\ fresh = TRUE
            /\ mm = Memory_new(Rom_new(ReadFile(file)))
            /\ mops = 0
            /\ mlast = NoAccess
            /\ mem = c.mem
            /\ stack = c.stack
            /\ v_reg = c.v_reg
            /\ i = c.i
            /\ delay_t = c.delay_t
            /\ sound_t = c.sound_t
            /\ pc = c.pc
            /\ sp = c.sp
            /\ keypad = c.keypad
            /\ display = c.display
            /\ draw = c.draw
            /\ beep = c.beep
            /\ panicked = FALSE
            /\ steps = 0
            /\ last = NoCycle
            /\ last2 = NoCycle
            /\ last3 = NoCycle
            /\ open = << >>
            /\ display_len = c.display_len
            /\ drv = DriverOff
            /\ tone = NoTone

RunDeep == Cycle(MaxStackSteps)

KeysDeep == UpdateKeys(MaxStackSteps)

StackNext == RunDeep \/ KeysDeep

StackSpec == StackInit /\ [][StackNext]_vars

\* ------------------------------------------------------------------------
\* Specification of direct accesses to a Memory object, next to a machine
\* that runs
\* ------------------------------------------------------------------------
\* the image of the repository's tests (first words), and one whose bytes
\* around the start are all non-zero
MemPrograms ==
    { << Op(6,1,0,1), Op(7,1,0,1), Op(3,1,0,0), Op(1,2,0,2) >>,
      << Op(10,1,15,15), Op(15,0,5,5) >> }

MemFiles == { Image(RomBytes(prog)) : prog \in MemPrograms }

\* addresses accessed: both ends of the reserved region and of the program
\* region, and the first address past the 12-bit space
MemAddrs == { 0, 511, 512, 4095, 4096 }

\* bytes written
MemValues == { 0, 15 }

MemInit ==
    \E file \in MemFiles :
        LET c == New(ReadFile(file))
        IN  /\ image = file
            /\ fresh = TRUE
            /\ mm = Memory_new(Rom_new(ReadFile(file)))
            /\ mops = 0
            /\ mlast = NoAccess
            /\ mem = c.mem
            /\ stack = c.stack
            /\ v_reg = c.v_reg
            /\ i = c.i
            /\ delay_t = c.delay_t
            /\ sound_t = c.sound_t
            /\ pc = c.pc
            /\ sp = c.sp
            /\ keypad = c.keypad
            /\ display = c.display
            /\ draw = c.draw
            /\ beep = c.beep
            /\ panicked = FALSE
            /\ steps = 0
            /\ last = NoCycle
            /\ last2 = NoCycle
            /\ last3 = NoCycle
            /\ open = << >>
            /\ display_len = c.display_len
            /\ drv = DriverOff
            /\ tone = NoTone

\* what a direct access leaves alone
MachineUnchanged ==
    UNCHANGED << mem, stack, v_reg, i, delay_t, sound_t, pc, sp, keypad, display,
                 display_len, draw, beep, steps, last, last2, last3, open, image,
                 drv, tone >>

\* mm.read_byte(addr)
MemReadByte ==
    /\ ~panicked
    /\ mops < MaxMemOps
    /\ \E a \in MemAddrs : \E r \in {Memory_read_byte(mm, a)} :
        /\ mlast' = [op |-> "read_byte", addr |-> a, value |-> 0,
                      result |-> r.val, panic |-> r.panic, pre |-> mm]
        /\ panicked' = r.panic
    /\ mops' = mops + 1
    /\ fresh' = FALSE
    /\ UNCHANGED mm
    /\ MachineUnchanged

\* mm.read_word(addr)
MemReadWord ==
    /\ ~panicked
    /\ mops < MaxMemOps
    /\ \E a \in MemAddrs : \E r \in {read_word(mm, a)} :
        /\ mlast' = [op |-> "read_word", addr |-> a, value |-> 0,
                      result |-> r.val, panic |-> r.panic, pre |-> mm]
        /\ panicked' = r.panic
    /\ mops' = mops + 1
    /\ fresh' = FALSE
    /\ UNCHANGED mm
    /\ MachineUnchanged

\* mm.write_byte(value, addr)
MemWriteByte ==
    /\ ~panicked
    /\ mops < MaxMemOps
    /\ \E a \in MemAddrs, v \in MemValues : \E r \in {Memory_write_byte(mm, v, a)} :
        /\ mlast' = [op |-> "write_byte", addr |-> a, value |-> v,
                      result |-> 0, panic |-> r.panic, pre |-> mm]
        /\ mm' = r.m
        /\ panicked' = r.panic
    /\ mops' = mops + 1
    /\ fresh' = FALSE
    /\ MachineUnchanged

MemNext == RunCycle \/ MemReadByte \/ MemReadWord \/ MemWriteByte

MemSpec == MemInit /\ [][MemNext]_vars

\* ------------------------------------------------------------------------
\* Specification of the runs of programs that move data, jump and draw
\* ------------------------------------------------------------------------
\* the state after the loader has read file and the machine was constructed
Boot(file) ==
    LET c == New(ReadFile(file))
    IN  /\ image = file
        /\ fresh = TRUE
        /\ mm = Memory_new(Rom_new(ReadFile(file)))
        /\ mops = 0
        /\ mlast = NoAccess
        /\ mem = c.mem
        /\ stack = c.stack
        /\ v_reg = c.v_reg
        /\ i = c.i
        /\ delay_t = c.delay_t
        /\ sound_t = c.sound_t
        /\ pc = c.pc
        /\ sp = c.sp
        /\ keypad = c.keypad
        /\ display = c.display
        /\ draw = c.draw
        /\ beep = c.beep
        /\ panicked = FALSE
        /\ steps = 0
        /\ last = NoCycle
        /\ last2 = NoCycle
        /\ last3 = NoCycle
        /\ open = << >>
        /\ display_len = c.display_len
        /\ drv = DriverOff
        /\ tone = NoTone

\* clears and draws: a draw of no rows, a clear of a blank and of a drawn
\* display, a draw over itself, draws placed by VF, draws that wrap
DrawPrograms ==
    { << Op(13,0,1,0) >>,
      << Op(0,0,14,0) >>,
      << Op(13,0,1,5), Op(0,0,14,0), Op(13,0,1,0), Op(13,0,1,5) >>,
      << Op(13,0,1,5), Op(13,0,1,5), Op(13,0,1,0) >>,
      << Op(6,15,0,5), Op(13,15,1,5) >>,
      << Op(6,15,0,5), Op(13,0,15,5) >>,
      << Op(13,0,1,5), Op(13,15,1,5) >>,
      << Op(6,0,0,5), Op(6,1,0,3), Op(13,0,1,5) >>,
      << Op(6,0,3,14), Op(6,1,1,14), Op(10,0,0,5), Op(13,0,1,5) >> }

\* accesses at the edges: a key index above 15, a fetch at the end of
\* memory, sprite and register transfers at the end of memory
EdgePrograms ==
    { << Op(6,0,15,15), Op(14,0,9,14) >>,
      << Op(6,0,15,15), Op(14,0,10,1) >>,
      << Op(6,0,0,5), Op(14,0,9,14) >>,
      << Op(1,15,15,15) >>,
      << Op(1,15,15,14) >>,
      << Op(10,15,15,14), Op(13,0,1,5) >>,
      << Op(10,15,15,14), Op(15,0,3,3) >>,
      << Op(10,15,15,15), Op(15,1,5,5) >>,
      << Op(10,15,15,15), Op(15,1,6,5) >> }

\* JP V0, addr
JumpV0Programs ==
    { << Op(6,0,0,0) + v, Op(11,0,0,0) + nnn >> :
         v \in {0, 1, 128, 255}, nnn \in {0, 1, 516, 767, 2048, 3841, 4095} }
    \cup { << Op(6,15,0,7), Op(11,2,0,8) >> }

\* LD B, Vx for every value of the register
BcdPrograms ==
    { << Op(6,0,0,0) + v, Op(10,3,0,0), Op(15,0,3,3) >> : v \in 0..255 }
    \cup { << Op(6,0,0,0) + v, Op(10,0,0,0) + a, Op(15,0,3,3) >> :
               v \in {0, 9, 99, 100, 157, 255}, a \in {ROM_OFFSET, MEM_SIZE - 3} }
    \cup { << Op(6,15,9,13), Op(10,15,15,13), Op(15,15,3,3) >> }

\* the registers loaded from the font, V0..Vx stored at 0x300, V0 (and VF)
\* overwritten, V0..Vx loaded back
StoreLoadPrograms ==
    { << Op(10,0,0,0), Op(15,15,6,5), Op(10,3,0,0), Op(15,x,5,5),
         Op(6,0,14,14), Op(15,x,6,5) >> : x \in 0..15 }
    \cup { << Op(10,0,0,0), Op(15,15,6,5), Op(10,3,0,0), Op(15,3,5,5),
               Op(6,15,14,14), Op(15,3,6,5) >>,
            << Op(10,0,0,0), Op(15,15,6,5), Op(10,15,15,13), Op(15,2,5,5),
               Op(6,1,14,14), Op(15,2,6,5) >> }

\* ADD Vx, byte
AddBytePrograms ==
    { << Op(6,x,0,0) + v, Op(7,x,0,0) + kk >> :
         x \in {0, 7, 15}, v \in {0, 1, 128, 255}, kk \in {0, 1, 128, 255} }
    \cup { << Op(7,0,0,0) >>,
            << Op(6,15,0,1), Op(6,3,8,0), Op(7,3,8,0) >>,
            << Op(6,15,0,1), Op(6,3,0,1), Op(7,3,0,1) >> }

DataPrograms ==
    DrawPrograms \cup EdgePrograms \cup JumpV0Programs \cup BcdPrograms
    \cup StoreLoadPrograms \cup AddBytePrograms

DataFiles == { Image(RomBytes(prog)) : prog \in DataPrograms }

DataInit == \E file \in DataFiles : Boot(file)

RunData == Cycle(MaxDataSteps)

DataSpec == DataInit /\ [][RunData]_vars

\* ------------------------------------------------------------------------
\* Specification of the runs of programs that skip, draw random bytes, load
\* glyph addresses and timers, and wait for a key, with the keypad refreshed
\* ------------------------------------------------------------------------
\* values loaded into V0 and V1 before a conditional skip
SkipPairs == { <<1, 1>>, <<5, 2>>, <<0, 255>>, <<15, 15>> }

\* SE/SNE V0 with a byte, SE/SNE V0 with V1, SKP/SKNP V0 and V1, SE/SNE VF
SkipOps ==
    { Op(3,0,0,1), Op(4,0,0,1), Op(3,0,0,5), Op(4,0,0,5),
      Op(5,0,1,0), Op(9,0,1,0), Op(14,0,9,14), Op(14,0,10,1),
      Op(14,1,9,14), Op(14,1,10,1), Op(3,15,0,0), Op(4,15,0,0) }

SkipPrograms ==
    { << Op(6,0,0,0) + ab[1], Op(6,1,0,0) + ab[2], op >> :
        ab \in SkipPairs, op \in SkipOps }

\* LD F, Vx for every digit and for values above 0xF
FontPrograms ==
    { << Op(6,0,0,0) + v, Op(15,0,2,9) >> : v \in 0..15 \cup {16, 23, 128, 255} }
    \cup { << Op(6,15,0,10), Op(15,15,2,9) >> }

\* RND Vx, byte for masks with no, some and all bits set
RndPrograms ==
    { << Op(6,1,7,7), Op(6,15,0,1), Op(12,x,0,0) + kk >> :
        x \in {0, 15}, kk \in {0, 15, 48, 165, 255} }

\* a timer loaded with k, then read back or left to run down
TimerPrograms ==
    { << Op(6,0,0,0) + k, ld, Op(15,1,0,7), Op(15,2,0,7) >> :
        k \in {0, 1, 2, 3, 255}, ld \in { Op(15,0,1,5), Op(15,0,1,8) } }
    \cup { << Op(6,15,0,2), Op(15,15,1,5), Op(15,15,0,7) >>,
            << Op(6,0,0,3), Op(15,0,1,8), Op(6,0,0,1), Op(15,0,1,8) >> }

\* both timers loaded, then LD V1, K waits for a key
WaitPrograms ==
    { << Op(6,0,0,5), Op(15,0,1,5), Op(15,0,1,8), Op(15,1,0,10) >>,
      << Op(6,0,0,1), Op(15,0,1,8), Op(15,1,0,10) >>,
      << Op(13,0,0,5), Op(15,1,0,10) >> }

CtlPrograms ==
    SkipPrograms \cup FontPrograms \cup RndPrograms \cup TimerPrograms
    \cup WaitPrograms

CtlFiles == { Image(RomBytes(prog)) : prog \in CtlPrograms }

CtlInit == \E file \in CtlFiles : Boot(file)

RunCtl == Cycle(MaxCtlSteps)

KeysCtl == UpdateKeys(MaxCtlSteps)

CtlNext == RunCtl \/ KeysCtl

CtlSpec == CtlInit /\ [][CtlNext]_vars

\* ------------------------------------------------------------------------
\* Specification of the runs of the Cpu of chip8/cpu.rs
\* ------------------------------------------------------------------------
\* a clear alone, twice, before a draw, before a draw of no rows, and
\* between two draws
ClearPrograms ==
    { << Op(0,0,14,0), Op(0,0,14,0) >>,
      << Op(0,0,14,0), Op(13,0,1,5) >>,
      << Op(0,0,14,0), Op(13,0,1,0), Op(6,0,0,1) >>,
      << Op(13,0,1,5), Op(0,0,14,0), Op(13,0,1,5) >>,
      << Op(6,0,3,14), Op(6,1,1,14), Op(13,0,1,5), Op(0,0,14,0) >> }

CpuPrograms == ClearPrograms \cup DrawPrograms \cup AddBytePrograms

CpuFiles == { Image(RomBytes(prog)) : prog \in CpuPrograms }

CpuInit == \E file \in CpuFiles : Boot(file)

\* one call of Cpu::fetch_decode_execute()
RunCpu == CycleOf(MaxCpuSteps, TRUE) /\ UNCHANGED drv

CpuSpec == CpuInit /\ [][RunCpu]_vars

\* ------------------------------------------------------------------------
\* Specification of the runs of the timers under a driver that keeps stepping
\* ------------------------------------------------------------------------
\* the sound timer loaded again on every second cycle; both timers loaded
\* and then a jump to itself; the sound timer loaded twice in a row
RearmPrograms ==
    { << Op(6,0,0,3), Op(15,0,1,8), Op(1,2,0,2) >>,
      << Op(6,0,0,4), Op(15,0,1,8), Op(15,0,1,5), Op(1,2,0,6) >>,
      << Op(6,0,0,2), Op(15,0,1,8), Op(15,0,1,8), Op(6,0,0,5), Op(15,0,1,5) >> }

\* the programs that wait for a key with a timer running
TimedWaitPrograms == { prog \in WaitPrograms : Nib0(prog[1]) = 6 }

TonePrograms == TimerPrograms \cup TimedWaitPrograms \cup RearmPrograms

ToneFiles == { Image(RomBytes(prog)) : prog \in TonePrograms }

ToneInit == \E file \in ToneFiles : Boot(file)

\* one iteration's call of chip8.fetch_decode_execute()
RunTone == Cycle(MaxToneSteps)

\* the same iteration's update_pressed_keys()
KeysTone == UpdateKeys(MaxToneSteps)

ToneNext == RunTone \/ KeysTone

\* a cycle is counted: of the steps of ToneNext these are the calls of
\* fetch_decode_execute(), which can be made whenever the process lives
CycleTaken ==
    /\ ~panicked
    /\ steps < MaxToneSteps
    /\ steps' = steps + 1

\* the loop of Emulator::run has no exit but the quit event and nothing in
\* its body waits: while the process lives the next call of
\* fetch_decode_execute() is always taken
ToneSpec == ToneInit /\ [][ToneNext]_vars /\ WF_steps(CycleTaken)

\* ------------------------------------------------------------------------
\* Specification of the loop of Emulator::run
\* ------------------------------------------------------------------------
\* a sprite drawn again and again; a sprite drawn at two places; a draw
\* that aborts after one that returned
RedrawPrograms ==
    { << Op(13,0,1,5), Op(1,2,0,0) >>,
      << Op(13,0,1,5), Op(6,0,0,1), Op(6,1,0,1), Op(13,0,1,5) >>,
      << Op(13,0,1,5), Op(10,15,15,14), Op(13,0,1,5) >> }

DriverPrograms ==
    DrawPrograms \cup ClearPrograms \cup WaitPrograms \cup RedrawPrograms

DriverFiles == { Image(RomBytes(prog)) : prog \in DriverPrograms }

DriverInit == \E file \in DriverFiles : Boot(file)

\* what no statement of the loop body but the call of fetch_decode_execute()
\* touches
LoopBodyKeeps ==
    UNCHANGED << mem, stack, v_reg, i, delay_t, sound_t, pc, sp, display,
                 display_len, beep, panicked, steps, last, last2, last3, open,
                 image, fresh, mm, mops, mlast, tone >>

\* run() sets up the canvas, the audio device and the event pump and enters
\* the loop
DriverStart ==
    /\ drv.loc = "off"
    /\ drv' = [drv EXCEPT !.loc = "step"]
    /\ LoopBodyKeeps
    /\ UNCHANGED << keypad, draw >>

\* self.chip8.fetch_decode_execute()
DriverStep ==
    /\ drv.loc = "step"
    /\ CycleOf(MaxDriverSteps, FALSE)
    /\ drv' = [drv EXCEPT !.loc = "render"]

\* a render branch that draws the frame and leaves the flag raised
DriverRender_KeepFlag ==
    /\ drv.loc = "render"
    /\ ~panicked
    /\ drv' = [drv EXCEPT !.loc = "audio",
                          !.renders = IF draw THEN drv.renders + 1 ELSE drv.renders]
    /\ LoopBodyKeeps
    /\ UNCHANGED << keypad, draw >>

\* if self.chip8.draw { self.draw(&mut canvas); self.chip8.draw = false; }
DriverRender ==
    /\ drv.loc = "render"
    /\ ~panicked
    /\ IF draw
       THEN /\ drv' = [drv EXCEPT !.loc = "audio", !.renders = drv.renders + 1]
            /\ draw' = FALSE
       ELSE /\ drv' = [drv EXCEPT !.loc = "audio"]
            /\ UNCHANGED draw
    /\ LoopBodyKeeps
    /\ UNCHANGED keypad

\* if self.chip8.beep { audio.resume() } else { audio.pause() }
DriverAudio ==
    /\ drv.loc = "audio"
    /\ drv' = [drv EXCEPT !.loc = "events", !.playing = beep]
    /\ LoopBodyKeeps
    /\ UNCHANGED << keypad, draw >>

\* the pending events are read; Quit or Escape leaves the loop
DriverEvents ==
    /\ drv.loc = "events"
    /\ \E quit \in BOOLEAN :
        drv' = [drv EXCEPT !.loc = IF quit THEN "done" ELSE "keys"]
    /\ LoopBodyKeeps
    /\ UNCHANGED << keypad, draw >>

\* self.update_pressed_keys(&event_pump), then the sleep that ends the
\* iteration
DriverKeys ==
    /\ drv.loc = "keys"
    /\ \E ks \in KeySets : keypad' = [k \in 0..(NUM_KEYS - 1) |-> k \in ks]
    /\ drv' = [drv EXCEPT !.loc = "step"]
    /\ LoopBodyKeeps
    /\ UNCHANGED draw

DriverNext ==
    \/ DriverStart
    \/ DriverStep
    \/ DriverRender
    \/ DriverAudio
    \/ DriverEvents
    \/ DriverKeys

DriverSpec == DriverInit /\ [][DriverNext]_vars

\* ------------------------------------------------------------------------
\* Specification of the run of the counting loop
\* ------------------------------------------------------------------------
\* LD V1, 1; ADD V1, 1; SE V1, 0; JP 0x202
LoopProgram == << Op(6,1,0,1), Op(7,1,0,1), Op(3,1,0,0), Op(1,2,0,2) >>

LoopInit == Boot(Image(RomBytes(LoopProgram)))

RunLoop == Cycle(MaxLoopSteps)

LoopSpec == LoopInit /\ [][RunLoop]_vars

\* ------------------------------------------------------------------------
\* Properties
\* ------------------------------------------------------------------------
\* the last completed cycle executed an opcode <<a, _, _, n>>
RanAN(a, n) == last.ran /\ Nib0(last.opcode) = a /\ Nib3(last.opcode) = n

\* the last completed cycle executed an opcode <<15, _, y, n>>
RanF(y, n) ==
    last.ran /\ Nib0(last.opcode) = 15 /\ Nib2(last.opcode) = y /\ Nib3(last.opcode) = n

\* registers named by the last opcode, and their values before it ran
LastX == Nib1(last.opcode)
LastY == Nib2(last.opcode)
PreVx == last.c.v_reg[LastX]
PreVy == last.c.v_reg[LastY]

\* C1: after 8xy5, VF = 1 exactly when Vx >= Vy held before the instruction
\* (VF = 1 on a tie), and VF = 0 otherwise.
C1_SubFlagIsNotBorrow ==
    RanAN(8, 5) => v_reg[15] = (IF PreVx >= PreVy THEN 1 ELSE 0)

\* C2: for x in 0..E and any y (y = F included), after 8xy5 the register Vx
\* holds (Vx - Vy) mod 256 of the values held before the instruction.
C2_SubResultFromOldOperands ==
    (RanAN(8, 5) /\ LastX # 15) => v_reg[LastX] = (PreVx - PreVy + 256) % 256

\* C3: after 8xy7, VF = 1 exactly when Vy >= Vx held before the instruction
\* (VF = 1 on a tie), and for x # F the register Vx holds (Vy - Vx) mod 256.
C3_SubnFlagAndResult ==
    RanAN(8, 7) =>
        /\ v_reg[15] = (IF PreVy >= PreVx THEN 1 ELSE 0)
        /\ LastX # 15 => v_reg[LastX] = (PreVy - PreVx + 256) % 256

\* C4: after 8xy4, VF = 1 exactly when the unsigned sum Vx + Vy exceeds 255,
\* for every x and y (x = F included), and for x # F the register Vx holds
\* (Vx + Vy) mod 256.
C4_AddCarry ==
    RanAN(8, 4) =>
        /\ v_reg[15] = (IF PreVx + PreVy > 255 THEN 1 ELSE 0)
        /\ LastX # 15 => v_reg[LastX] = (PreVx + PreVy) % 256

\* an 8xy4 whose sum overflowed has run, with x other than F
C4_Witness == RanAN(8, 4) /\ LastX # 15 /\ PreVx + PreVy > 255 /\ v_reg[15] = 1

\* C5: after Fx1E, I holds I + Vx and VF = 1 exactly when that sum is
\* greater than 0xFFF.
C5_AddIFlagBeyondFFF ==
    RanF(1, 14) =>
        /\ i = last.c.i + PreVx
        /\ v_reg[15] = (IF last.c.i + PreVx > 4095 THEN 1 ELSE 0)

\* the last two completed cycles executed the same Dxyn with the same I, the
\* same sprite bytes and the same Vx and Vy
SameDrawTwice ==
    /\ last.ran /\ last2.ran
    /\ Nib0(last.opcode) = 13 /\ last2.opcode = last.opcode
    /\ last.c.i = last2.c.i
    /\ last.c.v_reg[LastX] = last2.c.v_reg[LastX]
    /\ last.c.v_reg[LastY] = last2.c.v_reg[LastY]
    /\ \A row \in 0..(Nib3(last.opcode) - 1) :
           Idx(last.c.mem, last.c.i + row) = Idx(last2.c.mem, last2.c.i + row)

\* display cell that sprite bit (row, col) of a draw at (vxv, vyv) lands on
SpriteCell(vxv, vyv, row, col) == ((row + vyv) % 32) * 64 + ((col + vxv) % 64)

\* sprite bit (row, col) of the sprite at I in machine c
SpriteBit(c, row, col) == (Idx(c.mem, c.i + row) \div (2 ^ (7 - col))) % 2

\* some set bit of the n-row sprite lands on a cell that is off in display d
SomeBitOnOffCell(c, d, x, y, n) ==
    \E row \in 0..(n - 1), col \in 0..7 :
        /\ SpriteBit(c, row, col) = 1
        /\ Idx(d, SpriteCell(c.v_reg[x], c.v_reg[y], row, col)) = 0

C7_CollisionIsPixelCleared ==
    (last.ran /\ Nib0(last.opcode) = 13) =>
        v_reg[15] = (IF \E cell \in DOMAIN last.c.display :
                            last.c.display[cell] = 1 /\ Idx(display, cell) = 0
                     THEN 1 ELSE 0)

\* a draw that cleared a lit pixel, and turned another one on, has run
C7_Witness ==
    /\ last.ran /\ Nib0(last.opcode) = 13
    /\ v_reg[15] = 1
    /\ \E cell \in DOMAIN last.c.display : Idx(display, cell) = 0
    /\ \E cell \in DOMAIN display : Idx(last.c.display, cell) = 0

\* keys pressed when the last cycle ran
PrePressed == {k \in DOMAIN last.c.keypad : last.c.keypad[k]}

\* C8: a cycle that executes Fx0A with no key pressed leaves PC unchanged; one
\* that executes it with a key pressed sets Vx to the lowest pressed index and
\* advances PC by 2.
C8_KeyWait ==
    RanF(0, 10) =>
        IF PrePressed = {}
        THEN pc = last.c.pc
        ELSE /\ pc = last.c.pc + 2
             /\ v_reg[LastX] \in PrePressed
             /\ \A k \in PrePressed : v_reg[LastX] <= k

\* Fx0A was blocked for one cycle, then ran with two keys pressed and went on
C8_Witness ==
    /\ RanF(0, 10) /\ last2.ran /\ last2.opcode = last.opcode
    /\ {k \in DOMAIN last2.c.keypad : last2.c.keypad[k]} = {}
    /\ last.c.pc = last2.c.pc
    /\ Cardinality(PrePressed) > 1
    /\ pc = last.c.pc + 2

\* the patterns of the instruction table
InTable(opcode) ==
    LET a == Nib0(opcode)
        kk == KK(opcode)
        n == Nib3(opcode)
    IN  \/ opcode = 224 \/ opcode = 238
        \/ a \in {1, 2, 3, 4, 6, 7, 10, 11, 12, 13}
        \/ a \in {5, 9} /\ n = 0
        \/ a = 8 /\ n \in {0, 1, 2, 3, 4, 5, 6, 7, 14}
        \/ a = 14 /\ kk \in {158, 161}
        \/ a = 15 /\ kk \in {7, 10, 21, 24, 30, 41, 51, 85, 101}

\* what the timer tick makes of a timer value
Ticked(t) == IF t > 0 THEN t - 1 ELSE 0

\* C9: a cycle whose opcode matches no pattern of the instruction table
\* advances PC by 2 and changes no register, I, stack, stack pointer, memory,
\* display or draw flag; only the timer tick applies.
C9_UnmatchedIsNoOp ==
    (last.ran /\ ~InTable(last.opcode)) =>
        /\ pc = last.c.pc + 2
        /\ v_reg = last.c.v_reg
        /\ i = last.c.i
        /\ stack = last.c.stack
        /\ sp = last.c.sp
        /\ mem = last.c.mem
        /\ display = last.c.display
        /\ draw = last.c.draw
        /\ delay_t = Ticked(last.c.delay_t)
        /\ sound_t = Ticked(last.c.sound_t)

\* an unmatched opcode other than 0000 has run while the delay timer was
\* counting: PC went on by 2 and the timer went down by 1
C9_Witness ==
    /\ last.ran /\ ~InTable(last.opcode) /\ last.opcode # 0
    /\ last.c.delay_t > 1 /\ delay_t = last.c.delay_t - 1
    /\ pc = last.c.pc + 2

\* C10: on every cycle whose opcode is not Fx15, a non-zero delay timer is
\* exactly 1 lower afterwards and a zero one stays 0; the same for the sound
\* timer and Fx18; a timer never goes below 0.
C10_TimersTick ==
    last.ran =>
        /\ ~RanF(1, 5) => delay_t = Ticked(last.c.delay_t)
        /\ ~RanF(1, 8) => sound_t = Ticked(last.c.sound_t)
        /\ delay_t >= 0 /\ sound_t >= 0

\* two cycles in a row that did not load the timers: the first took the delay
\* timer from 1 to 0, the second left it at 0 while the sound timer went down
C10_Witness ==
    /\ last.ran /\ last2.ran
    /\ ~RanF(1, 5) /\ ~RanF(1, 8)
    /\ last.c.sound_t > 1 /\ sound_t = last.c.sound_t - 1
    /\ last.c.delay_t = 0 /\ delay_t = 0

\* C11: in the initial state and at the end of every step, beep is true
\* exactly when the sound timer, as left by that step's decrement, is above 0.
C11_BeepIffSound == beep <=> (sound_t > 0)

\* LD ST, V0 has just run with V0 = 255: the sound timer counts and beep is on
C11_Witness ==
    /\ RanF(1, 8)
    /\ last.c.v_reg[LastX] > 1
    /\ sound_t = last.c.v_reg[LastX] - 1
    /\ beep

\* opcodes that set the program counter to an address they compute
IsJump(opcode) ==
    \/ Nib0(opcode) \in {1, 2, 11}
    \/ opcode = Op(0,0,14,14)

\* C12 (as claimed): after any opcode the program counter is even.
C12_PcEven == last.ran => pc % 2 = 0

\* C12 (amended): an opcode other than 1nnn, 2nnn, Bnnn and 00EE leaves the
\* program counter with the parity it had (it moves by 0, 2 or 4); only a
\* jump, call or return can change the alignment.
C12_ParityKept ==
    (last.ran /\ ~IsJump(last.opcode)) =>
        /\ pc - last.c.pc \in {0, 2, 4}
        /\ pc % 2 = last.c.pc % 2

\* an instruction fetched at an odd address (after a jump there) has run
C12_Witness ==
    /\ last.ran
    /\ ~IsJump(last.opcode)
    /\ last.c.pc % 2 = 1
    /\ pc = last.c.pc + 2

\* C13: in every reachable state the stack pointer is between 0 and 16, so
\* the stack never holds more than sixteen return addresses.
C13_StackDepth == sp \in 0..STACK_SIZE

\* the sixteenth nested call has just been made
C13_Witness ==
    /\ last.ran
    /\ Nib0(last.opcode) = 2
    /\ last.c.sp = STACK_SIZE - 1
    /\ sp = STACK_SIZE

\* the next cycle is a call on a full stack
CallOnFull ==
    /\ pc + 1 < MEM_SIZE
    /\ Nib0(fetch_opcode(Self)) = 2
    /\ sp = STACK_SIZE

\* the next cycle is a return on an empty stack
ReturnOnEmpty ==
    /\ pc + 1 < MEM_SIZE
    /\ fetch_opcode(Self) = Op(0,0,14,14)
    /\ sp = 0

\* C14: a cycle that executes 2nnn with sixteen return addresses on the
\* stack, or 00EE with none, aborts the process: the stack pointer, the
\* stack and the program counter are left as they were and nothing runs after.
C14_StackFaultIsFatal ==
    [][ (~panicked /\ steps' = steps + 1 /\ (CallOnFull \/ ReturnOnEmpty)) =>
            (panicked' /\ sp' = sp /\ stack' = stack /\ pc' = pc) ]_vars

\* the process has aborted on the seventeenth nested call
C14_Witness == panicked /\ CallOnFull

\* the process has aborted on a return with nothing to return to
C14_WitnessUnderflow == panicked /\ ReturnOnEmpty

\* the last completed cycle stored to memory (Fx33 or Fx55) with I below 0x200
StoredBelowRom ==
    /\ last.ran
    /\ (RanF(3, 3) \/ RanF(5, 5))
    /\ last.c.i < ROM_OFFSET

\* C15: every byte write to an address below 0x200 is fatal, also when an
\* instruction that stores to memory (Fx33, Fx55) issues it: no such
\* instruction completes with I in the reserved region.
C15_ReservedWriteIsFatal == ~StoredBelowRom

\* the byte that construction leaves at an address of the reserved region
ReservedAtNew(a) == IF a < Len(FONT_DATA) THEN FONT_DATA[a + 1] ELSE 0

\* C16: after any sequence of steps the bytes at 0x000..0x1FF are the ones
\* construction put there: the eighty font bytes followed by zeros.
C16_ReservedUnchanged ==
    \A a \in 0..(ROM_OFFSET - 1) : Idx(mem, a) = ReservedAtNew(a)

\* the byte a Memory object holds at an address, 0 where the read would panic
ByteAt(m, a) == Memory_read_byte(m, a).val

\* C17: a word read is the byte at the address times 256 plus the byte at the
\* next address, on a Memory object (also across the 0x1FF/0x200 boundary)
\* and for the opcode a cycle fetches at the program counter.
C17_WordIsBigEndian ==
    /\ (mlast.op = "read_word" /\ ~mlast.panic) =>
            mlast.result = ByteAt(mlast.pre, mlast.addr) * 256
                           + ByteAt(mlast.pre, mlast.addr + 1)
    /\ last.ran =>
            last.opcode = Idx(last.c.mem, last.c.pc) * 256
                          + Idx(last.c.mem, last.c.pc + 1)

\* a word was read across the boundary of the two regions, its low byte
\* being the first byte of the program, and the machine has fetched an opcode
C17_Witness ==
    /\ mlast.op = "read_word"
    /\ mlast.addr = RESERVED_MEMORY_SIZE - 1
    /\ ~mlast.panic
    /\ mlast.result = Idx(mm.rom, 0)
    /\ mlast.result > 0
    /\ last.ran
    /\ last.opcode > 255

\* C18: a byte written at an address of 0x200..0xFFF is read back from that
\* address, is held by the program region at the address less 0x200, and no
\* other address reads differently than before the write.
C18_WriteThenRead ==
    (mlast.op = "write_byte" /\ mlast.addr \in ROM_OFFSET..(MEM_SIZE - 1)) =>
        /\ ~mlast.panic
        /\ Memory_read_byte(mm, mlast.addr) = [val |-> mlast.value, panic |-> FALSE]
        /\ Idx(mm.rom, mlast.addr - ROM_OFFSET) = mlast.value
        /\ \A b \in (0..(MEM_SIZE - 1)) \ {mlast.addr} :
                Memory_read_byte(mm, b) = Memory_read_byte(mlast.pre, b)

\* 0x0F was written over the first byte of the program, which was another byte
C18_Witness ==
    /\ mlast.op = "write_byte"
    /\ mlast.addr = ROM_OFFSET
    /\ mlast.value = 15
    /\ ByteAt(mlast.pre, ROM_OFFSET) \notin {0, 15}
    /\ ByteAt(mm, ROM_OFFSET) = 15

\* C19: right after construction from an image of at most 3584 bytes, memory
\* holds the font at 0..79, the image from 0x200 and 0 elsewhere, PC is 0x200,
\* and the registers, I, the timers, the stack pointer, the keypad, the
\* display and the draw and beep flags are zero or false.
C19_AfterConstruction ==
    (fresh /\ image.len <= ROM_SIZE) =>
        /\ DOMAIN mem \subseteq 0..(MEM_SIZE - 1)
        /\ \A a \in 0..(MEM_SIZE - 1) :
              Idx(mem, a) =
                 IF a < Len(FONT_DATA) THEN FONT_DATA[a + 1]
                 ELSE IF a >= ROM_OFFSET /\ a < ROM_OFFSET + image.len
                      THEN Idx(image.bytes, a - ROM_OFFSET)
                      ELSE 0
        /\ pc = ROM_OFFSET
        /\ \A r \in 0..(NUM_REGS - 1) : v_reg[r] = 0
        /\ i = 0
        /\ delay_t = 0
        /\ sound_t = 0
        /\ sp = 0
        /\ \A k \in 0..(NUM_KEYS - 1) : keypad[k] = FALSE
        /\ \A d \in 0..(CHIP8_WIDTH * CHIP8_HEIGHT - 1) : Idx(display, d) = 0
        /\ draw = FALSE
        /\ beep = FALSE

\* a machine just constructed from an image that fills the program region:
\* the last byte of the image is the last byte of memory
C19_Witness ==
    /\ fresh
    /\ image.len = ROM_SIZE
    /\ Idx(image.bytes, ROM_SIZE - 1) = 127
    /\ Idx(mem, MEM_SIZE - 1) = 127

\* C20: an image longer than 3584 bytes is reported as an error when it is
\* loaded: no machine completes a cycle on an image that was cut short.
C20_OversizeRejected == ~(image.len > ROM_SIZE /\ last.ran)

\* ------------------------------------------------------------------------
\* The draw flag, aborts, jumps with offset, transfers, calls (C21..C30)
\* ------------------------------------------------------------------------
\* the cycle about to run fetches CLS or a DRW
FetchesClearOrDraw ==
    /\ pc + 1 < MEM_SIZE
    /\ \/ fetch_opcode(Self) = Op(0,0,14,0)
       \/ Nib0(fetch_opcode(Self)) = 13

\* a cycle ran and returned
CycleReturned == steps' = steps + 1 /\ ~panicked'

\* C21: no cycle of the machine changes the draw flag from true to false, and
\* every cycle that executes 00E0 or Dxyn leaves it true, a Dxyn with n = 0 or
\* one that changes no pixel included.
C21_DrawFlagOnlyRaised ==
    [][ CycleReturned =>
          /\ draw => draw'
          /\ FetchesClearOrDraw => draw' ]_vars

\* D010, a draw of no rows, ran on a clean display and raised the flag
C21_Witness ==
    /\ last.ran
    /\ Nib0(last.opcode) = 13
    /\ Nib3(last.opcode) = 0
    /\ ~last.c.draw
    /\ display = last.c.display
    /\ draw

\* the next cycle is a store (Fx33, Fx55) that starts below the program region
StoreToReserved ==
    /\ pc + 1 < MEM_SIZE
    /\ Nib0(fetch_opcode(Self)) = 15
    /\ KK(fetch_opcode(Self)) \in {51, 85}
    /\ i < ROM_OFFSET

\* C22: no cycle aborts except on a write to the reserved region, a call on a
\* full stack or a return on an empty one: a fetch at any PC, Ex9E/ExA1 with
\* any Vx and Dxyn/Fx33/Fx55/Fx65 with any I complete and return.
C22_OnlyStackAndReservedAbort ==
    panicked => (CallOnFull \/ ReturnOnEmpty \/ StoreToReserved)

\* C24: after Bnnn the program counter is nnn + V0, not reduced to twelve
\* bits, and no register (V0..VF, I, the stack pointer) has changed.
C24_JumpV0Exact ==
    (last.ran /\ Nib0(last.opcode) = 11) =>
        /\ pc = NNN(last.opcode) + last.c.v_reg[0]
        /\ v_reg = last.c.v_reg
        /\ i = last.c.i
        /\ sp = last.c.sp
        /\ stack = last.c.stack

\* BFFF ran with V0 = 0xFF: the program counter is past the end of memory
C24_Witness ==
    /\ last.ran
    /\ last.opcode = Op(11,15,15,15)
    /\ last.c.v_reg[0] = 255
    /\ pc = 4095 + 255

\* the pass of the loop ADD, SE, JP a cycle count belongs to, and its place in it
LoopPass == (steps - 2) \div 3
LoopPhase == (steps - 2) % 3

\* the pass in which V1, which is 2 after the first pass, wraps from 0xFF to 0
WrapPass == Pow2(8) - 2

\* C25: the program 6101 7101 3100 1202 at 0x200: after cycle 1, V1 = 1 and
\* PC = 0x202; in each pass of the loop the ADD leaves V1 one higher and
\* PC = 0x204, the SE leaves PC = 0x206 and the JP leaves PC = 0x202, until the
\* pass in which V1 wraps from 0xFF to 0, where the SE, and only there, skips
\* to PC = 0x208.
C25_LoopTrace ==
    /\ ~panicked
    /\ steps = 0 => pc = ROM_OFFSET
    /\ steps = 1 => (v_reg[1] = 1 /\ pc = ROM_OFFSET + 2)
    /\ (steps >= 2 /\ steps <= 3 * WrapPass + 3) =>
          /\ v_reg[1] = (LoopPass + 2) % 256
          /\ LoopPhase = 0 => pc = ROM_OFFSET + 4
          /\ LoopPhase = 1 =>
                pc = IF LoopPass = WrapPass THEN ROM_OFFSET + 8 ELSE ROM_OFFSET + 6
          /\ LoopPhase = 2 => pc = ROM_OFFSET + 2
          /\ (LoopPhase = 1 /\ LoopPass = WrapPass) <=> (pc = ROM_OFFSET + 8)

\* the SE of the pass that wrapped V1 to 0 has skipped the JP
C25_Witness ==
    /\ steps = 3 * WrapPass + 3
    /\ last.ran
    /\ last.opcode = Op(3,1,0,0)
    /\ v_reg[1] = 0
    /\ last2.c.v_reg[1] = 255
    /\ pc = ROM_OFFSET + 8

\* C26: after Fx33 with I..I+2 in the program region, mem[I], mem[I+1] and
\* mem[I+2] are the hundreds, tens and units of the value Vx had, each in
\* 0..9, and they recompose to that value; no other byte of memory, no
\* register and not I has changed.
C26_BcdDigits ==
    (RanF(3, 3) /\ last.c.i >= ROM_OFFSET) =>
        /\ Idx(mem, i) = PreVx \div 100
        /\ Idx(mem, i + 1) = (PreVx \div 10) % 10
        /\ Idx(mem, i + 2) = PreVx % 10
        /\ 100 * Idx(mem, i) + 10 * Idx(mem, i + 1) + Idx(mem, i + 2) = PreVx
        /\ \A k \in 0..2 : Idx(mem, i + k) \in 0..9
        /\ \A a \in 0..(MEM_SIZE - 1) :
              a \notin {i, i + 1, i + 2} => Idx(mem, a) = Idx(last.c.mem, a)
        /\ v_reg = last.c.v_reg
        /\ i = last.c.i

\* 157 was stored as 1, 5, 7
C26_Witness ==
    /\ RanF(3, 3)
    /\ last.c.i >= ROM_OFFSET
    /\ PreVx = 157
    /\ Idx(mem, i) = 1
    /\ Idx(mem, i + 1) = 5
    /\ Idx(mem, i + 2) = 7

\* the last three completed cycles were Fx55, one instruction that left the
\* stored bytes alone, and Fx65 with the same x and the same I in the
\* program region
StoredThenLoaded ==
    /\ last3.ran /\ last2.ran /\ last.ran
    /\ Nib0(last3.opcode) = 15 /\ KK(last3.opcode) = 85
    /\ RanF(6, 5)
    /\ Nib1(last3.opcode) = LastX
    /\ last3.c.i = last.c.i
    /\ last.c.i >= ROM_OFFSET
    /\ \A k \in 0..LastX : Idx(last.c.mem, last.c.i + k) = Idx(last2.c.mem, last.c.i + k)

\* C27: Fx55 followed by Fx65 with the same x and I leaves V0..Vx as they
\* were before the Fx55, whatever happened to the registers in between;
\* Fx55 writes mem[I..I+x] and nothing else, Fx65 writes V0..Vx and nothing
\* else, and neither changes I.
C27_StoreLoadRoundTrip ==
    /\ StoredThenLoaded =>
          \A r \in 0..LastX : v_reg[r] = last3.c.v_reg[r]
    /\ (RanF(5, 5) /\ last.c.i >= ROM_OFFSET) =>
          /\ \A a \in 0..(MEM_SIZE - 1) :
                Idx(mem, a) = IF a >= i /\ a <= i + LastX
                              THEN last.c.v_reg[a - i]
                              ELSE Idx(last.c.mem, a)
          /\ v_reg = last.c.v_reg
          /\ i = last.c.i
    /\ (RanF(6, 5) /\ last.c.i >= ROM_OFFSET) =>
          /\ \A r \in 0..(NUM_REGS - 1) :
                v_reg[r] = IF r <= LastX THEN Idx(last.c.mem, i + r)
                           ELSE last.c.v_reg[r]
          /\ mem = last.c.mem
          /\ i = last.c.i

\* V0..V3 were stored, V0 was overwritten, and the load brought its value back
C27_Witness ==
    /\ StoredThenLoaded
    /\ LastX = 3
    /\ Nib0(last2.opcode) = 6
    /\ last.c.v_reg[0] # last3.c.v_reg[0]
    /\ v_reg[0] = last3.c.v_reg[0]
    /\ v_reg[3] = last3.c.v_reg[3]

\* the cycle about to run fetches a CALL, or a RET
FetchesCall == pc + 1 < MEM_SIZE /\ Nib0(fetch_opcode(Self)) = 2
FetchesRet == pc + 1 < MEM_SIZE /\ fetch_opcode(Self) = Op(0,0,14,14)

\* C28: a 2nnn at address p with fewer than sixteen entries on the stack
\* pushes p + 2 and sets PC = nnn; a 00EE sets PC to the p + 2 of the latest
\* call not yet returned from and restores the stack pointer that call found:
\* return addresses come back last in, first out.
C28_CallReturnLifo ==
    [][ CycleReturned =>
          /\ (FetchesCall /\ sp < STACK_SIZE) =>
                /\ pc' = NNN(fetch_opcode(Self))
                /\ sp' = sp + 1
                /\ stack'[sp] = pc + 2
                /\ \A s \in 0..(STACK_SIZE - 1) : s # sp => stack'[s] = stack[s]
          /\ (FetchesRet /\ Len(open) > 0) =>
                /\ pc' = open[Len(open)].ret
                /\ sp' = open[Len(open)].sp
                /\ stack' = stack ]_vars

\* a routine called a second routine twice; both of those calls have
\* returned, and now the outer call has returned to the address after it
C28_Witness ==
    /\ last3.ran /\ last2.ran /\ last.ran
    /\ Nib0(last3.opcode) = 2
    /\ last2.opcode = Op(0,0,14,14)
    /\ last.opcode = Op(0,0,14,14)
    /\ last.c.sp = 1
    /\ sp = 0
    /\ open = << >>
    /\ pc = ROM_OFFSET + 2

\* C29: after 7xkk, Vx is the sum of its old value and kk modulo 256 and
\* every other register, VF included, is as it was: no carry is recorded.
C29_AddByteWraps ==
    (last.ran /\ Nib0(last.opcode) = 7) =>
        /\ v_reg[LastX] = (PreVx + KK(last.opcode)) % 256
        /\ \A r \in 0..(NUM_REGS - 1) : r # LastX => v_reg[r] = last.c.v_reg[r]

\* 0xFF + 1 wrapped to 0 and VF, which was 0, is 0
C29_Witness ==
    /\ last.ran
    /\ Nib0(last.opcode) = 7
    /\ LastX # 15
    /\ PreVx = 255
    /\ KK(last.opcode) = 1
    /\ v_reg[LastX] = 0
    /\ last.c.v_reg[15] = 0
    /\ v_reg[15] = 0

\* the display cells that the set bits of the n-row sprite at c.i fall on
\* when the sprite is placed at column X, row Y
SpriteCells(c, X, Y, n) ==
    { SpriteCell(X, Y, rc[1], rc[2]) :
        rc \in { p \in (0..(n - 1)) \X (0..7) : SpriteBit(c, p[1], p[2]) = 1 } }

\* the display is the display before the last cycle with exactly the cells
\* in hit inverted
InvertedAt(hit) ==
    \A d \in 0..(CHIP8_WIDTH * CHIP8_HEIGHT - 1) :
        Idx(display, d) = IF d \in hit THEN 1 - Idx(last.c.display, d)
                          ELSE Idx(last.c.display, d)

\* C30: after every Dxyn, x = F and y = F included, the display is the
\* display before the instruction with sprite bit (row r, column c) XORed
\* into cell ((X + c) mod 64, (Y + r) mod 32), X and Y being the values of Vx
\* and Vy before the instruction started.
C30_SpriteAtEntryPosition ==
    (last.ran /\ Nib0(last.opcode) = 13) =>
        \E hit \in { SpriteCells(last.c, PreVx, PreVy, Nib3(last.opcode)) } :
            InvertedAt(hit)

\* ------------------------------------------------------------------------
\* Skips, the display vector, glyphs, random bytes, timers, the driver loop
\* (C31..C40)
\* ------------------------------------------------------------------------
\* the last completed cycle executed a conditional skip
RanSkip ==
    /\ last.ran
    /\ \/ Nib0(last.opcode) \in {3, 4}
       \/ Nib0(last.opcode) \in {5, 9} /\ Nib3(last.opcode) = 0
       \/ Nib0(last.opcode) = 14 /\ KK(last.opcode) \in {158, 161}

\* the condition that opcode tests held in the machine the last cycle ran on
SkipCondition ==
    CASE Nib0(last.opcode) = 3  -> PreVx = KK(last.opcode)
      [] Nib0(last.opcode) = 4  -> PreVx # KK(last.opcode)
      [] Nib0(last.opcode) = 5  -> PreVx = PreVy
      [] Nib0(last.opcode) = 9  -> PreVx # PreVy
      [] KK(last.opcode) = 158  -> PreVx \in PrePressed
      [] OTHER                  -> PreVx \notin PrePressed

\* handler result r is the effect Skip
Skips(r) == ~r.panic /\ r.npc = PcSkip

\* C31: a conditional skip (3xkk, 4xkk, 5xy0, 9xy0, Ex9E, ExA1 with Vx in
\* 0..F) sets PC to PC + 4 if its condition holds and to PC + 2 otherwise and
\* changes no register, I, memory, stack or display; in every state, of
\* 3xkk/4xkk, of 5xy0/9xy0 and of Ex9E/ExA1 exactly one would skip.
C31_SkipsAndComplements ==
    /\ RanSkip =>
          /\ pc = last.c.pc + (IF SkipCondition THEN 4 ELSE 2)
          /\ v_reg = last.c.v_reg
          /\ i = last.c.i
          /\ mem = last.c.mem
          /\ stack = last.c.stack
          /\ sp = last.c.sp
          /\ display = last.c.display
    /\ \A x \in 0..(NUM_REGS - 1) :
          /\ \A kk \in {0, 1, 5, 15, 255} :
                Skips(execute_SE_Vx_kk(Self, x, kk)) # Skips(execute_SNE_Vx_kk(Self, x, kk))
          /\ \A y \in {0, 1, 15} :
                Skips(execute_SE_Vx_Vy(Self, x, y)) # Skips(execute_SNE_Vx_Vy(Self, x, y))
          /\ v_reg[x] < NUM_KEYS =>
                Skips(execute_SKP_Vx(Self, x)) # Skips(execute_SKNP_Vx(Self, x))

\* SKP V0 ran with key 5 pressed and V0 = 5, and skipped
C31_Witness ==
    /\ RanSkip
    /\ last.opcode = Op(14,0,9,14)
    /\ PreVx = 5
    /\ 5 \in PrePressed
    /\ pc = last.c.pc + 4

\* the cycle before this state ran 00E0 (CLS) and returned
RanCLS == last.ran /\ last.opcode = Op(0,0,14,0)

\* C32: after 00E0 every one of the 2048 cells of the display is 0, the
\* draw flag is raised, the program counter is 2 past the instruction, and
\* the display still has its 2048 cells, so that a draw may follow
C32_ClearKeepsDisplay ==
    RanCLS =>
        /\ display = Zeroed
        /\ display_len = CHIP8_WIDTH * CHIP8_HEIGHT
        /\ draw
        /\ pc = last.c.pc + 2

\* C33: the display always has exactly 64 * 32 cells and each cell holds
\* 0 or 1
C33_DisplayShape ==
    /\ display_len = CHIP8_WIDTH * CHIP8_HEIGHT
    /\ \A d \in DOMAIN display :
        d \in 0..(CHIP8_WIDTH * CHIP8_HEIGHT - 1) /\ display[d] \in {0, 1}

RanRND == last.ran /\ Nib0(last.opcode) = 12

\* the next cycle fetches Cxkk
FetchesRND ==
    /\ ~panicked
    /\ steps < MaxCtlSteps
    /\ pc + 1 < MEM_SIZE
    /\ Nib0(fetch_opcode(Self)) = 12

\* the values of Vx the cycle that fetches Cxkk can end with, one for each
\* byte the generator can return
RndOutcomes ==
    { fetch_decode_execute(Self, rnd).c.v_reg[Nib1(fetch_opcode(Self))] :
        rnd \in RandBytes }

\* C35: after Cxkk, Vx has no bit outside kk and no other register has
\* changed; and where Cxkk is about to run, the values of Vx the cycle can
\* end with are exactly the values r AND kk, r in 0..255, which are the bytes
\* with no bit outside kk
C35_RandomMasked ==
    /\ RanRND =>
        /\ BitAnd(v_reg[LastX], 255 - KK(last.opcode)) = 0
        /\ \A r \in DOMAIN v_reg : r # LastX => v_reg[r] = last.c.v_reg[r]
        /\ i = last.c.i
        /\ pc = last.c.pc + 2
    /\ FetchesRND =>
        RndOutcomes = { out \in 0..255 :
                          \A b \in 0..7 : Bit(out, b) = 1 =>
                                              Bit(KK(fetch_opcode(Self)), b) = 1 }

\* C0A5 ran and left V0 = 0x21, two of the four bits of the mask, with V1
\* and VF as they were
C35_Witness ==
    /\ RanRND
    /\ last.opcode = Op(12, 0, 10, 5)
    /\ v_reg[0] = 33
    /\ v_reg[1] = 119
    /\ v_reg[15] = 1

\* C36: the address register I holds a 12-bit value in every state
C36_AddressTwelveBits == i \in 0..(MEM_SIZE - 1)

\* C37: the tick of a cycle is applied after the effect of its opcode: a
\* cycle that runs Fx15 with Vx = k ends with delay = max(k - 1, 0), one
\* that runs Fx18 with Vx = k ends with sound = max(k - 1, 0), so that beep
\* is false for k <= 1, and one that runs Fx07 copies to Vx the delay the
\* cycle started with, before its decrement
C37_TickAfterEffect ==
    /\ RanF(1, 5) =>
        /\ delay_t = (IF PreVx >= 1 THEN PreVx - 1 ELSE 0)
        /\ sound_t = Ticked(last.c.sound_t)
    /\ RanF(1, 8) =>
        /\ sound_t = (IF PreVx >= 1 THEN PreVx - 1 ELSE 0)
        /\ beep = (PreVx >= 2)
        /\ delay_t = Ticked(last.c.delay_t)
    /\ RanF(0, 7) =>
        /\ v_reg[LastX] = last.c.delay_t
        /\ delay_t = Ticked(last.c.delay_t)

\* F107 ran with the delay timer at 2: V1 = 2, and the delay timer is 1
C37_Witness ==
    /\ RanF(0, 7)
    /\ last.c.delay_t = 2
    /\ v_reg[LastX] = 2
    /\ delay_t = 1

\* the cycle before this state ran Fx0A with no key pressed
RanBlockedWait == RanF(0, 10) /\ PrePressed = {}

\* C38: a cycle that runs Fx0A with no key pressed leaves the registers, I,
\* memory, the stack, the stack pointer, the program counter, the display
\* and the draw flag unchanged, and still decrements each non-zero timer and
\* sets beep to whether the sound timer is above 0 after the decrement
C38_WaitKeepsTicking ==
    RanBlockedWait =>
        /\ v_reg = last.c.v_reg
        /\ i = last.c.i
        /\ mem = last.c.mem
        /\ stack = last.c.stack
        /\ sp = last.c.sp
        /\ pc = last.c.pc
        /\ display = last.c.display
        /\ draw = last.c.draw
        /\ delay_t = Ticked(last.c.delay_t)
        /\ sound_t = Ticked(last.c.sound_t)
        /\ beep = (sound_t > 0)

\* the fourth blocked F10A in a row found the delay timer run out and took
\* the sound timer from 1 to 0, which ended the beep
C38_Witness ==
    /\ RanBlockedWait
    /\ last.c.pc = pc
    /\ last.c.delay_t = 0
    /\ delay_t = 0
    /\ last.c.sound_t = 1
    /\ last.c.beep
    /\ sound_t = 0
    /\ ~beep

\* what is left of a timer that held k, n cycles later
RunDown(t) == IF t.k > t.n THEN t.k - t.n ELSE 0

\* the explored cycles are enough for the sound timer to run down
SoundRoom == steps + sound_t <= MaxToneSteps

\* the explored cycles are enough for the delay timer to run down
DelayRoom == steps + delay_t <= MaxToneSteps

\* C39: a timer that held k after some cycle holds max(k - n, 0) after n
\* further cycles in which it was not loaded, so it is above 0 for the first
\* k - 1 of them, 0 after exactly k, and 0 from then on until the next load;
\* beep is whether the sound timer is above 0; and while the driver keeps
\* stepping, every beep stops unless Fx18 has run again (seen here as an
\* Fx18 that has just loaded more than the cycles explored can run down),
\* and likewise the delay timer and Fx15
C39_TonesStop ==
    /\ [](/\ sound_t = RunDown(tone.sound)
          /\ delay_t = RunDown(tone.delay)
          /\ beep = (sound_t > 0))
    /\ (sound_t > 0 /\ SoundRoom)
            ~> ((sound_t = 0 /\ ~beep) \/ (tone.sound.n = 0 /\ ~SoundRoom))
    /\ (delay_t > 0 /\ DelayRoom)
            ~> (delay_t = 0 \/ (tone.delay.n = 0 /\ ~DelayRoom))

\* the sound timer held 2 after F018, two cycles without Fx18 have passed,
\* the second of them ended the beep
C39_Witness ==
    /\ tone.sound = [k |-> 2, n |-> 2]
    /\ last.c.sound_t = 1
    /\ last.c.beep
    /\ sound_t = 0
    /\ ~beep

\* C40: in the loop of the driver a cycle that leaves the draw flag raised
\* is followed by a render that clears it before the next cycle is taken:
\* every cycle starts with the flag down, the flag goes down only in a step
\* that renders, a render happens only for a raised flag, and the flag goes
\* up only in a cycle that runs 00E0 or Dxyn, so that no two draws of
\* different cycles share a render
C40_RenderBeforeNextStep ==
    /\ [](drv.loc \in {"step", "audio", "events", "keys"} => ~draw)
    /\ [][(draw /\ ~draw') =>
            (drv.loc = "render" /\ drv'.renders = drv.renders + 1)]_vars
    /\ [][(drv'.renders # drv.renders) =>
            (draw /\ ~draw' /\ drv'.renders = drv.renders + 1)]_vars
    /\ [][(~draw /\ draw') =>
            (drv.loc = "step" /\ ~panicked' /\ FetchesClearOrDraw)]_vars

\* the loop of 0x200: D015, 0x202: JP 0x200 has drawn twice and rendered
\* twice, and is about to take its fourth cycle with the flag down
C40_Witness ==
    /\ drv.loc = "step"
    /\ drv.renders = 2
    /\ steps = 3
    /\ last.opcode = Op(13,0,1,5)
    /\ last3.opcode = Op(13,0,1,5)
    /\ ~draw

=============================================================================
